---- MODULE Spec2Model ----
(***************************************************************************)
(* heave: OpenAPI document -> hurl test-case records.                      *)
(*                                                                         *)
(* The model follows src/src/main.rs: the reference resolvers, the cycle   *)
(* guard, the assertion synthesizer, the request-body synthesizer and the  *)
(* loop of generate() over the operations of a document.                   *)
(*                                                                         *)
(* Representation of strings.  TLC can concatenate strings but cannot look *)
(* inside them, so every string the code takes apart is kept as the        *)
(* sequence of the pieces the code takes it into:                          *)
(*   - a reference is the sequence of its tokens, a token being one of the *)
(*     four "#/components/<kind>/" prefixes or a piece of other text;      *)
(*   - a JSON path is the sequence of its '.'-separated segments;          *)
(*   - a JSON fragment is the sequence of its lexical tokens.              *)
(* Str(..) gives the string itself where the code stores or prints it.     *)
(***************************************************************************)
EXTENDS Naturals, Sequences, FiniteSets, TLC

(***************************************************************************)
(* Bounds of the model.                                                    *)
(***************************************************************************)
\* Depth of nested synthesizer calls the stack holds before the process is
\* killed (the code has no depth budget of its own: recursion on the
\* machine stack, main.rs:759, 828, 864, 1039, 1138, 1176).
MaxDepth == 9

(***************************************************************************)
(* Generic helpers.                                                        *)
(***************************************************************************)
None == <<>>
Some(x) == <<x>>
is_none(o) == Len(o) = 0
is_some(o) == Len(o) > 0
unwrap(o) == o[1]

RECURSIVE Str(_)
\* Concatenation of a sequence of strings.
Str(toks) == IF Len(toks) = 0 THEN "" ELSE Head(toks) \o Str(Tail(toks))

RECURSIVE Join(_, _)
\* [String]::join(sep)
Join(strs, sep) ==
  IF Len(strs) = 0 THEN ""
  ELSE IF Len(strs) = 1 THEN strs[1]
  ELSE strs[1] \o sep \o Join(Tail(strs), sep)

RECURSIVE Flatten(_)
Flatten(seqs) == IF Len(seqs) = 0 THEN <<>> ELSE Head(seqs) \o Flatten(Tail(seqs))

Elems(s) == {s[i] : i \in DOMAIN s}

\* unique that keeps every occurrence.
unique_kept(s) == s

RECURSIVE unique(_)
\* itertools::Itertools::unique: first occurrences, in order.
unique(s) ==
  IF Len(s) = 0 THEN <<>>
  ELSE IF s[Len(s)] \in Elems(SubSeq(s, 1, Len(s) - 1))
  THEN unique(SubSeq(s, 1, Len(s) - 1))
  ELSE Append(unique(SubSeq(s, 1, Len(s) - 1)), s[Len(s)])

(***************************************************************************)
(* The document model (openapiv3 types, as far as the code reads them).    *)
(***************************************************************************)
SchemasPrefix       == "#/components/schemas/"
RequestBodiesPrefix == "#/components/requestBodies/"
ResponsesPrefix     == "#/components/responses/"
ParametersPrefix    == "#/components/parameters/"

\* ReferenceOr<T>
Item(x) == [is_ref |-> FALSE, reference |-> <<>>, item |-> <<x>>]
Ref(toks) == [is_ref |-> TRUE, reference |-> toks, item |-> <<>>]
as_item(r) == IF r.is_ref THEN None ELSE r.item

\* Schema { schema_data: { read_only, write_only }, schema_kind }
Schema(kind, ro, wo, all_of, items, properties, required) ==
  [schema_kind |-> kind, read_only |-> ro, write_only |-> wo, all_of |-> all_of,
   items |-> items, properties |-> properties, required |-> required]
Prim(kind) == Schema(kind, FALSE, FALSE, <<>>, None, <<>>, {})
Obj(properties, required) == Schema("Object", FALSE, FALSE, <<>>, None, properties, required)
Arr(items) == Schema("Array", FALSE, FALSE, <<>>, items, <<>>, {})
AllOf(members) == Schema("AllOf", FALSE, FALSE, members, None, <<>>, {})
ReadOnly(s) == [s EXCEPT !.read_only = TRUE]
WriteOnly(s) == [s EXCEPT !.write_only = TRUE]
Prop(name, prop) == [name |-> name, prop |-> prop]

\* DiagnosticContext
Context(operation, path) == [operation |-> operation, path |-> path]
NoContext == Context("", "")

\* HeaveError: one record shape for all variants; the fields a variant does
\* not have are empty.
Diag(error, context, reference, jsonpath, kind) ==
  [error |-> error, operation |-> context.operation, path |-> context.path,
   reference |-> reference, jsonpath |-> jsonpath, kind |-> kind]

(***************************************************************************)
(* Reference resolution.                                                   *)
(***************************************************************************)
RECURSIVE IndexOf(_, _, _)
\* First index >= from at which tok occurs in toks, 0 if none.
IndexOf(toks, tok, from) ==
  IF from > Len(toks) THEN 0
  ELSE IF toks[from] = tok THEN from
  ELSE IndexOf(toks, tok, from + 1)

\* The text after the prefix at i, up to the next prefix at j (0: there is none).
split_until(reference, i, j) ==
  Some(Str(SubSeq(reference, i + 1, IF j = 0 THEN Len(reference) ELSE j - 1)))

\* reference.split(prefix).nth(1): the text between the first and the second
\* occurrence of prefix, None when prefix does not occur at all.
split_from(reference, prefix, i) ==
  IF i = 0 THEN None
  ELSE split_until(reference, i, IndexOf(reference, prefix, i + 1))
split_nth_1(reference, prefix) == split_from(reference, prefix, IndexOf(reference, prefix, 1))

Resolved(value, diagnostics) == [value |-> value, diagnostics |-> diagnostics]

\* resolve_name that reports a missing entry twice.
resolve_name_twice(has_components, table, name, reference, missing, failed, context) ==
  IF ~has_components
  THEN Resolved(None, <<Diag("MissingComponents", NoContext, "", "", "")>>)
  ELSE IF name \notin DOMAIN table
  THEN Resolved(None, <<Diag(missing, context, reference, "", ""),
                        Diag(missing, context, reference, "", "")>>)
  ELSE IF is_none(as_item(table[name]))
  THEN Resolved(None, <<Diag(failed, context, reference, "", "")>>)
  ELSE Resolved(as_item(table[name]), <<>>)

\* resolve_name that follows an entry which is itself a reference to the entry
\* it names.
resolve_name_followed(has_components, table, name, reference, missing, failed, context) ==
  IF ~has_components
  THEN Resolved(None, <<Diag("MissingComponents", NoContext, "", "", "")>>)
  ELSE IF name \notin DOMAIN table
  THEN Resolved(None, <<Diag(missing, context, reference, "", "")>>)
  ELSE IF is_none(as_item(table[name]))
  THEN IF table[name].reference[Len(table[name].reference)] \in DOMAIN table
       THEN Resolved(as_item(table[table[name].reference[Len(table[name].reference)]]), <<>>)
       ELSE Resolved(None, <<Diag(failed, context, reference, "", "")>>)
  ELSE Resolved(as_item(table[name]), <<>>)

\* The lookup of a reference whose name was found: components, name, entry.
resolve_name(has_components, table, name, reference, missing, failed, context) ==
  IF ~has_components
  THEN Resolved(None, <<Diag("MissingComponents", NoContext, "", "", "")>>)
  ELSE IF name \notin DOMAIN table
  THEN Resolved(None, <<Diag(missing, context, reference, "", "")>>)
  ELSE IF is_none(as_item(table[name]))
  THEN Resolved(None, <<Diag(failed, context, reference, "", "")>>)
  ELSE Resolved(as_item(table[name]), <<>>)

\* resolve_reference that looks for the components section first.
resolve_reference_components_first(has_components, table, value, name, malformed, missing, failed, context) ==
  IF ~has_components
  THEN Resolved(None, <<Diag("MissingComponents", NoContext, "", "", "")>>)
  ELSE IF is_none(name)
  THEN Resolved(None, <<Diag(malformed, context, Str(value.reference), "", "")>>)
  ELSE resolve_name(has_components, table, unwrap(name), Str(value.reference),
                    missing, failed, context)

\* The reference arm, name being reference.split(prefix).nth(1).
resolve_reference(has_components, table, value, name, malformed, missing, failed, context) ==
  IF is_none(name)
  THEN Resolved(None, <<Diag(malformed, context, Str(value.reference), "", "")>>)
  ELSE resolve_name(has_components, table, unwrap(name), Str(value.reference),
                    missing, failed, context)

\* The shape shared by resolve_schema, resolve_request_body and resolve_response.
resolve(has_components, table, value, prefix, malformed, missing, failed, context) ==
  IF ~value.is_ref THEN Resolved(value.item, <<>>)
  ELSE resolve_reference(has_components, table, value,
                         split_nth_1(value.reference, prefix),
                         malformed, missing, failed, context)

resolve_schema(openapi, schema, context) ==
  resolve(openapi.has_components, openapi.schemas, schema, SchemasPrefix,
          "MalformedSchemaReference", "MissingSchemaReference",
          "FailedSchemaDereference", context)

resolve_request_body(openapi, request_body, context) ==
  resolve(openapi.has_components, openapi.request_bodies, request_body, RequestBodiesPrefix,
          "MalformedRequestBodyReference", "MissingRequestBodyReference",
          "FailedRequestBodyDereference", context)

resolve_response(openapi, response, context) ==
  resolve(openapi.has_components, openapi.responses, response, ResponsesPrefix,
          "MalformedResponseBodyReference", "MissingResponseBodyReference",
          "FailedResponseBodyDereference", context)

(***************************************************************************)
(* JSON paths and the cycle guard.                                         *)
(***************************************************************************)
\* jsonpath.to_string(): the segments joined by '.'
PathStr(jsonpath) == Join(jsonpath, ".")

\* format!("{}<text>", jsonpath) for a text without '.'
PathSuffix(jsonpath, text) ==
  [jsonpath EXCEPT ![Len(jsonpath)] = jsonpath[Len(jsonpath)] \o text]

\* format!("{}.{}", jsonpath, name) for a name without '.'
PathDot(jsonpath, name) == Append(jsonpath, name)

RootPath == <<"$">>

RECURSIVE cycle_scan(_, _)
\* The loop over jsonpath.split('.').rev(): i is the position of `part`.
cycle_scan(parts, i) ==
  IF i < 1 THEN FALSE
  ELSE IF parts[i] = "$" THEN FALSE
  ELSE IF i >= 2 /\ parts[i - 1] = parts[i] THEN TRUE
  ELSE IF i >= 3 /\ parts[i - 2] = parts[i] THEN TRUE
  ELSE cycle_scan(parts, i - 1)

cycle_detected(jsonpath) == cycle_scan(jsonpath, Len(jsonpath))

(***************************************************************************)
(* The assertion synthesizer.                                              *)
(*                                                                         *)
(* A value the code binds with `let` and reads more than once is the last  *)
(* parameter of an operator of its own (.._resolved, .._child), so that it *)
(* is computed once.                                                       *)
(***************************************************************************)
\* Property names holding '@' or '$' (name.chars().any(|c| c == '@' || c == '$')),
\* among the names the documents of the model use.
SpecialNames == {"@p", "@q"}
has_special_char(name) == name \in SpecialNames

Asserted(asserts, diagnostics) ==
  [asserts |-> asserts, diagnostics |-> diagnostics, overflow |-> FALSE]
\* The stack is exhausted: the process is killed, nothing is returned.
AssertOverflow == [asserts |-> <<>>, diagnostics |-> <<>>, overflow |-> TRUE]
\* diagnostics.append(&mut inner_diagnostics)
AssertedDiagnostics(acc, diagnostics) ==
  Asserted(acc.asserts, acc.diagnostics \o diagnostics)
\* asserts.append(&mut child_asserts); diagnostics.append(&mut child_diagnostics)
AssertedChild(acc, c) ==
  IF c.overflow THEN AssertOverflow
  ELSE Asserted(acc.asserts \o c.asserts, acc.diagnostics \o c.diagnostics)

is_required_formatter(jsonpath, default, is_required) ==
  (IF is_required THEN "" ELSE "#") \o "jsonpath \"" \o PathStr(jsonpath) \o "\" " \o default

\* is_write_only that never skips a schema.
is_write_only_ignored(schema) == FALSE
is_write_only(schema) == schema.write_only

\* let inner_jsonpath = if name has '@' or '$' { "{}['{}']" } else { "{}.{}" }
assert_inner_jsonpath(jsonpath, name) ==
  IF has_special_char(name)
  THEN PathSuffix(jsonpath, "['" \o name \o "']")
  ELSE PathDot(jsonpath, name)

\* child_is_required without the required set of the object.
child_is_required_inherited(is_required, ob, name) == is_required
\* child_is_required that forgets the context of the enclosing object.
child_is_required_own(is_required, ob, name) == name \in ob.required

child_is_required(is_required, ob, name) == is_required /\ name \in ob.required

UnsupportedKinds == {"OneOf", "AnyOf", "Not", "Any"}
PrimitiveKinds == {"Boolean", "String", "Number", "Integer"}
PrimitiveAssert(kind) ==
  CASE kind = "Boolean" -> "isBoolean"
    [] kind = "String"  -> "isString"
    [] kind = "Number"  -> "isNumber"
    [] kind = "Integer" -> "isInteger"

RECURSIVE generate_assert_from_schema(_, _, _, _, _, _)
RECURSIVE assert_all_of(_, _, _, _, _, _, _, _)
RECURSIVE assert_all_of_resolved(_, _, _, _, _, _, _, _, _)
RECURSIVE assert_all_of_child(_, _, _, _, _, _, _, _, _)
RECURSIVE assert_properties(_, _, _, _, _, _, _, _)
RECURSIVE assert_properties_resolved(_, _, _, _, _, _, _, _, _)
RECURSIVE assert_properties_child(_, _, _, _, _, _, _, _, _)
RECURSIVE assert_items_resolved(_, _, _, _, _, _)

\* for all_of_schema_or_ref in all_of { ... }, from member i on, acc so far.
assert_all_of(openapi, all_of, i, acc, jsonpath, is_required, context, depth) ==
  IF i > Len(all_of) THEN acc
  ELSE assert_all_of_resolved(openapi, all_of, i, acc, jsonpath, is_required, context, depth,
                              resolve_schema(openapi, all_of[i], context))

\* assert_all_of_resolved that leaves the loop at a member that does not resolve.
assert_all_of_resolved_break(openapi, all_of, i, acc, jsonpath, is_required, context, depth, r) ==
  IF is_none(r.value) THEN AssertedDiagnostics(acc, r.diagnostics)
  ELSE assert_all_of_child(openapi, all_of, i, AssertedDiagnostics(acc, r.diagnostics),
                           jsonpath, is_required, context, depth,
                           generate_assert_from_schema(openapi, unwrap(r.value), jsonpath,
                                                       is_required, context, depth - 1))

\* r is (all_of_schema, inner_diagnostics).
assert_all_of_resolved(openapi, all_of, i, acc, jsonpath, is_required, context, depth, r) ==
  IF is_none(r.value)
  THEN assert_all_of(openapi, all_of, i + 1, AssertedDiagnostics(acc, r.diagnostics),
                     jsonpath, is_required, context, depth)
  ELSE assert_all_of_child(openapi, all_of, i, AssertedDiagnostics(acc, r.diagnostics),
                           jsonpath, is_required, context, depth,
                           generate_assert_from_schema(openapi, unwrap(r.value), jsonpath,
                                                       is_required, context, depth - 1))

\* c is (child_asserts, child_diagnostics).
assert_all_of_child(openapi, all_of, i, acc, jsonpath, is_required, context, depth, c) ==
  IF c.overflow THEN AssertOverflow
  ELSE assert_all_of(openapi, all_of, i + 1, AssertedChild(acc, c),
                     jsonpath, is_required, context, depth)

\* for (name, prop) in properties.iter() { ... }, from property i on, acc so far.
assert_properties(openapi, ob, i, acc, jsonpath, is_required, context, depth) ==
  IF i > Len(ob.properties) THEN acc
  ELSE assert_properties_resolved(openapi, ob, i, acc, jsonpath, is_required, context, depth,
                                  resolve_schema(openapi, ob.properties[i].prop, context))

\* r is (inner, inner_diagnostics); an unresolved property ends the loop (break).
assert_properties_resolved(openapi, ob, i, acc, jsonpath, is_required, context, depth, r) ==
  IF is_none(r.value) THEN AssertedDiagnostics(acc, r.diagnostics)
  ELSE assert_properties_child(openapi, ob, i, AssertedDiagnostics(acc, r.diagnostics),
         jsonpath, is_required, context, depth,
         generate_assert_from_schema(openapi, unwrap(r.value),
           assert_inner_jsonpath(jsonpath, ob.properties[i].name),
           child_is_required(is_required, ob, ob.properties[i].name), context, depth - 1))

\* assert_properties_child that ends the loop over the properties at a
\* property whose branch the cycle guard has cut.
assert_properties_child_halted(openapi, ob, i, acc, jsonpath, is_required, context, depth, c) ==
  IF c.overflow THEN AssertOverflow
  ELSE IF c.asserts = <<>> /\ c.diagnostics # <<>>
          /\ c.diagnostics[1].error = "ResponseBodySchemaCycleDetected"
  THEN AssertedChild(acc, c)
  ELSE assert_properties(openapi, ob, i + 1, AssertedChild(acc, c),
                         jsonpath, is_required, context, depth)

\* c is (child_asserts, child_diagnostics).
assert_properties_child(openapi, ob, i, acc, jsonpath, is_required, context, depth, c) ==
  IF c.overflow THEN AssertOverflow
  ELSE assert_properties(openapi, ob, i + 1, AssertedChild(acc, c),
                         jsonpath, is_required, context, depth)

\* assert_items_resolved that takes the element of an array as required.
assert_items_resolved_required(openapi, acc, jsonpath, context, depth, r) ==
  IF is_none(r.value) THEN AssertedDiagnostics(acc, r.diagnostics)
  ELSE AssertedChild(AssertedDiagnostics(acc, r.diagnostics),
                     generate_assert_from_schema(openapi, unwrap(r.value),
                                                 PathSuffix(jsonpath, "[0]"), TRUE,
                                                 context, depth - 1))

\* The Array arm after resolve_schema of the items: acc holds the isCollection
\* assert, r is (inner, inner_diagnostics); is_required = false for the element.
assert_items_resolved(openapi, acc, jsonpath, context, depth, r) ==
  IF is_none(r.value) THEN AssertedDiagnostics(acc, r.diagnostics)
  ELSE AssertedChild(AssertedDiagnostics(acc, r.diagnostics),
                     generate_assert_from_schema(openapi, unwrap(r.value),
                                                 PathSuffix(jsonpath, "[0]"), FALSE,
                                                 context, depth - 1))

\* match &schema.schema_kind { ... }
assert_schema_kind(openapi, schema, jsonpath, is_required, context, depth) ==
  CASE schema.schema_kind \in UnsupportedKinds ->
         Asserted(<<>>, <<Diag("UnsupportedSchemaKind", context, "", PathStr(jsonpath),
                               schema.schema_kind)>>)
    [] schema.schema_kind = "AllOf" ->
         assert_all_of(openapi, schema.all_of, 1, Asserted(<<>>, <<>>),
                       jsonpath, is_required, context, depth)
    [] schema.schema_kind \in PrimitiveKinds ->
         Asserted(<<is_required_formatter(jsonpath, PrimitiveAssert(schema.schema_kind),
                                          is_required)>>, <<>>)
    [] schema.schema_kind = "Array" ->
         IF is_none(schema.items)
         THEN Asserted(<<is_required_formatter(jsonpath, "isCollection", is_required)>>, <<>>)
         ELSE assert_items_resolved(openapi,
                Asserted(<<is_required_formatter(jsonpath, "isCollection", is_required)>>, <<>>),
                jsonpath, context, depth,
                resolve_schema(openapi, unwrap(schema.items), context))
    [] schema.schema_kind = "Object" ->
         assert_properties(openapi, schema, 1,
           Asserted(<<is_required_formatter(jsonpath, "isCollection", is_required)>>, <<>>),
           jsonpath, is_required, context, depth)

\* depth: the frames the stack still holds.
generate_assert_from_schema(openapi, schema, jsonpath, is_required, context, depth) ==
  IF depth = 0 THEN AssertOverflow
  ELSE IF is_write_only(schema) THEN Asserted(<<>>, <<>>)
  ELSE IF cycle_detected(jsonpath)
  THEN Asserted(<<>>, <<Diag("ResponseBodySchemaCycleDetected", context, "",
                             PathStr(jsonpath), "")>>)
  ELSE assert_schema_kind(openapi, schema, jsonpath, is_required, context, depth)

(***************************************************************************)
(* JSON text (serde_json), as far as the fragments of the synthesizer go.  *)
(* A fragment is a sequence of tokens [ty, tx]: punctuation "p", a string  *)
(* literal "s" (tx is the text between the quotes), another literal "l"    *)
(* (0, false), white space "w".                                            *)
(***************************************************************************)
P(tx) == [ty |-> "p", tx |-> tx]
S(tx) == [ty |-> "s", tx |-> tx]
L(tx) == [ty |-> "l", tx |-> tx]
W(tx) == [ty |-> "w", tx |-> tx]
TokStr(t) == IF t.ty = "s" THEN "\"" \o t.tx \o "\"" ELSE t.tx

RECURSIVE FragStr(_)
\* The text of a fragment.
FragStr(frag) == IF Len(frag) = 0 THEN "" ELSE TokStr(Head(frag)) \o FragStr(Tail(frag))

RECURSIVE JoinFrags(_, _)
\* Vec<String>::join(sep) on fragments.
JoinFrags(frags, sep) ==
  IF Len(frags) = 0 THEN <<>>
  ELSE IF Len(frags) = 1 THEN frags[1]
  ELSE frags[1] \o sep \o JoinFrags(Tail(frags), sep)

CommaNewline == <<P(","), W("\n")>>

\* serde_json::Value; an object keeps its fields as a sequence of [k, v], one
\* entry per key.
VObject(fields) == [vt |-> "object", fields |-> fields, elems |-> <<>>, lit |-> ""]
VArray(elems)   == [vt |-> "array", fields |-> <<>>, elems |-> elems, lit |-> ""]
VString(text)   == [vt |-> "string", fields |-> <<>>, elems |-> <<>>, lit |-> text]
VLiteral(vt, text) == [vt |-> vt, fields |-> <<>>, elems |-> <<>>, lit |-> text]
is_object(v) == v.vt = "object"

RECURSIVE map_insert_first(_, _, _)
\* Map::insert that leaves the value of a key already present.
map_insert_first(fields, k, v) ==
  IF Len(fields) = 0 THEN <<[k |-> k, v |-> v]>>
  ELSE IF Head(fields).k = k THEN fields
  ELSE <<Head(fields)>> \o map_insert_first(Tail(fields), k, v)

RECURSIVE map_insert(_, _, _)
\* Map::insert: a key already present keeps its place and takes the new value.
map_insert(fields, k, v) ==
  IF Len(fields) = 0 THEN <<[k |-> k, v |-> v]>>
  ELSE IF Head(fields).k = k THEN <<[k |-> k, v |-> v]>> \o Tail(fields)
  ELSE <<Head(fields)>> \o map_insert(Tail(fields), k, v)

RECURSIVE map_append(_, _)
\* Map::append(&mut other): every entry of other is moved in, overwriting.
map_append(fields, other) ==
  IF Len(other) = 0 THEN fields
  ELSE map_append(map_insert(fields, Head(other).k, Head(other).v), Tail(other))

RECURSIVE skip_ws(_, _)
skip_ws(toks, i) ==
  IF i <= Len(toks) /\ toks[i].ty = "w" THEN skip_ws(toks, i + 1) ELSE i

Parsed(value, next) == [ok |-> TRUE, value |-> value, next |-> next]
ParseError == [ok |-> FALSE, value |-> VLiteral("null", "null"), next |-> 0]
LiteralType(tx) ==
  CASE tx = "0" -> "number"
    [] tx \in {"false", "true"} -> "bool"
    [] tx = "null" -> "null"
    [] OTHER -> ""

RECURSIVE parse_value(_, _)
RECURSIVE parse_value_at(_, _)
RECURSIVE parse_members(_, _, _, _)
RECURSIVE parse_member_colon(_, _, _, _)
RECURSIVE parse_member_value(_, _, _, _)
RECURSIVE parse_member_end(_, _, _)
RECURSIVE parse_elems(_, _, _, _)
RECURSIVE parse_elem_value(_, _, _)
RECURSIVE parse_elem_end(_, _, _)

\* After a member: ',' and another member, or '}'.
parse_member_end(toks, e, fields) ==
  IF e > Len(toks) THEN ParseError
  ELSE IF toks[e] = P(",") THEN parse_members(toks, skip_ws(toks, e + 1), fields, FALSE)
  ELSE IF toks[e] = P("}") THEN Parsed(VObject(fields), e + 1)
  ELSE ParseError

\* v is the parsed value of the member with key k.
parse_member_value(toks, k, v, fields) ==
  IF ~v.ok THEN ParseError
  ELSE parse_member_end(toks, skip_ws(toks, v.next), map_insert(fields, k, v.value))

\* c is where the ':' after the key at i must be.
parse_member_colon(toks, i, c, fields) ==
  IF c > Len(toks) \/ toks[c] # P(":") THEN ParseError
  ELSE parse_member_value(toks, toks[i].tx, parse_value(toks, c + 1), fields)

\* After '{' (first) or after ',' in an object; i is past the white space.
parse_members(toks, i, fields, first) ==
  IF i > Len(toks) THEN ParseError
  ELSE IF first /\ toks[i] = P("}") THEN Parsed(VObject(fields), i + 1)
  ELSE IF toks[i].ty # "s" THEN ParseError
  ELSE parse_member_colon(toks, i, skip_ws(toks, i + 1), fields)

\* After an element: ',' and another element, or ']'.
parse_elem_end(toks, e, elems) ==
  IF e > Len(toks) THEN ParseError
  ELSE IF toks[e] = P(",") THEN parse_elems(toks, skip_ws(toks, e + 1), elems, FALSE)
  ELSE IF toks[e] = P("]") THEN Parsed(VArray(elems), e + 1)
  ELSE ParseError

\* v is the parsed element.
parse_elem_value(toks, v, elems) ==
  IF ~v.ok THEN ParseError
  ELSE parse_elem_end(toks, skip_ws(toks, v.next), Append(elems, v.value))

\* After '[' (first) or after ',' in an array; i is past the white space.
parse_elems(toks, i, elems, first) ==
  IF i > Len(toks) THEN ParseError
  ELSE IF first /\ toks[i] = P("]") THEN Parsed(VArray(elems), i + 1)
  ELSE parse_elem_value(toks, parse_value_at(toks, i), elems)

\* One value starting at i, i past the white space.
parse_value_at(toks, i) ==
  IF i > Len(toks) THEN ParseError
  ELSE IF toks[i] = P("{") THEN parse_members(toks, skip_ws(toks, i + 1), <<>>, TRUE)
  ELSE IF toks[i] = P("[") THEN parse_elems(toks, skip_ws(toks, i + 1), <<>>, TRUE)
  ELSE IF toks[i].ty = "s" THEN Parsed(VString(toks[i].tx), i + 1)
  ELSE IF toks[i].ty = "l" /\ LiteralType(toks[i].tx) # ""
  THEN Parsed(VLiteral(LiteralType(toks[i].tx), toks[i].tx), i + 1)
  ELSE ParseError

parse_value(toks, i) == parse_value_at(toks, skip_ws(toks, i))

\* v is the value parsed from the start: nothing but white space may follow.
from_str_end(frag, v) ==
  IF v.ok /\ skip_ws(frag, v.next) > Len(frag) THEN Some(v.value) ELSE None

\* serde_json::from_str::<Value>
from_str(frag) == from_str_end(frag, parse_value(frag, 1))

RECURSIVE to_string(_)
RECURSIVE fields_to_string(_)
RECURSIVE elems_to_string(_)
fields_to_string(fields) ==
  IF Len(fields) = 0 THEN <<>>
  ELSE <<S(Head(fields).k), P(":")>> \o to_string(Head(fields).v)
       \o (IF Len(fields) > 1 THEN <<P(",")>> ELSE <<>>) \o fields_to_string(Tail(fields))
elems_to_string(elems) ==
  IF Len(elems) = 0 THEN <<>>
  ELSE to_string(Head(elems))
       \o (IF Len(elems) > 1 THEN <<P(",")>> ELSE <<>>) \o elems_to_string(Tail(elems))
\* Value::to_string(): the compact text.
to_string(v) ==
  CASE v.vt = "object" -> <<P("{")>> \o fields_to_string(v.fields) \o <<P("}")>>
    [] v.vt = "array"  -> <<P("[")>> \o elems_to_string(v.elems) \o <<P("]")>>
    [] v.vt = "string" -> <<S(v.lit)>>
    [] OTHER -> <<L(v.lit)>>

RECURSIVE Indent(_)
Indent(n) == IF n = 0 THEN "" ELSE "  " \o Indent(n - 1)
NewLine(n) == W("\n" \o Indent(n))

RECURSIVE to_string_pretty_at(_, _)
RECURSIVE fields_pretty(_, _)
RECURSIVE elems_pretty(_, _)
fields_pretty(fields, n) ==
  IF Len(fields) = 0 THEN <<>>
  ELSE <<NewLine(n), S(Head(fields).k), P(":"), W(" ")>> \o to_string_pretty_at(Head(fields).v, n)
       \o (IF Len(fields) > 1 THEN <<P(",")>> ELSE <<>>) \o fields_pretty(Tail(fields), n)
elems_pretty(elems, n) ==
  IF Len(elems) = 0 THEN <<>>
  ELSE <<NewLine(n)>> \o to_string_pretty_at(Head(elems), n)
       \o (IF Len(elems) > 1 THEN <<P(",")>> ELSE <<>>) \o elems_pretty(Tail(elems), n)
to_string_pretty_at(v, n) ==
  CASE v.vt = "object" ->
         IF Len(v.fields) = 0 THEN <<P("{"), P("}")>>
         ELSE <<P("{")>> \o fields_pretty(v.fields, n + 1) \o <<NewLine(n), P("}")>>
    [] v.vt = "array" ->
         IF Len(v.elems) = 0 THEN <<P("["), P("]")>>
         ELSE <<P("[")>> \o elems_pretty(v.elems, n + 1) \o <<NewLine(n), P("]")>>
    [] v.vt = "string" -> <<S(v.lit)>>
    [] OTHER -> <<L(v.lit)>>
\* serde_json::to_string_pretty: two spaces of indentation per level.
to_string_pretty(v) == to_string_pretty_at(v, 0)

(***************************************************************************)
(* The request-body synthesizer.                                           *)
(***************************************************************************)
\* fault: "" when the call returns; "overflow" when the stack is exhausted;
\* "unwrap" when serde_json::from_str(..).unwrap() panics.  A fault ends the
\* process.
Bodied(body, diagnostics) == [body |-> body, diagnostics |-> diagnostics, fault |-> ""]
BodyFault(fault) == [body |-> None, diagnostics |-> <<>>, fault |-> fault]

\* is_read_only that never skips a schema.
is_read_only_ignored(schema) == FALSE
is_read_only(schema) == schema.read_only

\* format!("\"{}\": {}", name, value), or the value alone without a name.
Named(name, frag) ==
  IF is_some(name) THEN <<S(unwrap(name)), P(":"), W(" ")>> \o frag ELSE frag

single_property_formatter(name, default) == Named(name, default)

\* jsonpath: name.unwrap_or("".to_string())
unsupported_body_jsonpath(name, jsonpath) == IF is_some(name) THEN unwrap(name) ELSE ""

\* The state of the allOf loop: child_request_bodies, the fields of
\* flattened_object_fields, diagnostics.
AllOfAcc(bodies, flattened, diagnostics) ==
  [bodies |-> bodies, flattened |-> flattened, diagnostics |-> diagnostics]
\* The state of the properties loop: child_request_bodies without its None
\* entries, diagnostics.
PropsAcc(bodies, diagnostics) == [bodies |-> bodies, diagnostics |-> diagnostics]

\* What follows the allOf loop; all is child_request_bodies at that point.
body_all_of_end(all, diagnostics, name) ==
  IF Len(all) = 0 THEN Bodied(None, diagnostics)
  ELSE Bodied(Some(Named(name, JoinFrags(all, CommaNewline))), diagnostics)

\* What follows the properties loop.
body_properties_end(acc, name) ==
  IF is_some(name)
  THEN Bodied(Some(Named(name, <<P("{")>> \o JoinFrags(acc.bodies, CommaNewline)
                               \o <<P("}")>>)), acc.diagnostics)
  ELSE Bodied(Some(<<P("{"), W("\n")>> \o JoinFrags(acc.bodies, CommaNewline)
                   \o <<W("\n"), P("}")>>), acc.diagnostics)

RECURSIVE generate_request_body_from_schema(_, _, _, _, _, _)
RECURSIVE body_all_of(_, _, _, _, _, _, _, _)
RECURSIVE body_all_of_resolved(_, _, _, _, _, _, _, _, _)
RECURSIVE body_all_of_child(_, _, _, _, _, _, _, _, _)
RECURSIVE body_all_of_parsed(_, _, _, _, _, _, _, _, _, _)
RECURSIVE body_properties(_, _, _, _, _, _, _, _)
RECURSIVE body_properties_resolved(_, _, _, _, _, _, _, _, _)
RECURSIVE body_properties_child(_, _, _, _, _, _, _, _, _)
RECURSIVE body_items_resolved(_, _, _, _, _, _)

\* for all_of_schema_or_ref in all_of { ... }, from member i on, and what follows.
body_all_of(openapi, all_of, i, acc, name, context, jsonpath, depth) ==
  IF i > Len(all_of)
  THEN body_all_of_end(IF Len(acc.flattened) > 0
                       THEN Append(acc.bodies, to_string(VObject(acc.flattened)))
                       ELSE acc.bodies,
                       acc.diagnostics, name)
  ELSE body_all_of_resolved(openapi, all_of, i, acc, name, context, jsonpath, depth,
                            resolve_schema(openapi, all_of[i], context))

\* r is (all_of_schema, inner_diagnostics).
body_all_of_resolved(openapi, all_of, i, acc, name, context, jsonpath, depth, r) ==
  IF is_none(r.value)
  THEN body_all_of(openapi, all_of, i + 1,
                   AllOfAcc(acc.bodies, acc.flattened, acc.diagnostics \o r.diagnostics),
                   name, context, jsonpath, depth)
  ELSE body_all_of_child(openapi, all_of, i,
                   AllOfAcc(acc.bodies, acc.flattened, acc.diagnostics \o r.diagnostics),
                   name, context, jsonpath, depth,
                   generate_request_body_from_schema(openapi, unwrap(r.value), None,
                                                     context, jsonpath, depth - 1))

\* c is (request_body, inner_diagnostics).
body_all_of_child(openapi, all_of, i, acc, name, context, jsonpath, depth, c) ==
  IF c.fault # "" THEN BodyFault(c.fault)
  ELSE IF is_none(c.body)
  THEN body_all_of(openapi, all_of, i + 1,
                   AllOfAcc(acc.bodies, acc.flattened, acc.diagnostics \o c.diagnostics),
                   name, context, jsonpath, depth)
  ELSE body_all_of_parsed(openapi, all_of, i,
                   AllOfAcc(acc.bodies, acc.flattened, acc.diagnostics \o c.diagnostics),
                   name, context, jsonpath, depth, unwrap(c.body), from_str(unwrap(c.body)))

\* j is serde_json::from_str::<Value>(&body), unwrapped here.
body_all_of_parsed(openapi, all_of, i, acc, name, context, jsonpath, depth, body, j) ==
  IF is_none(j) THEN BodyFault("unwrap")
  ELSE IF is_object(unwrap(j))
  THEN body_all_of(openapi, all_of, i + 1,
                   AllOfAcc(acc.bodies, map_append(acc.flattened, unwrap(j).fields),
                            acc.diagnostics),
                   name, context, jsonpath, depth)
  ELSE body_all_of(openapi, all_of, i + 1,
                   AllOfAcc(Append(acc.bodies, body), acc.flattened, acc.diagnostics),
                   name, context, jsonpath, depth)

\* for (name, prop) in properties.iter() { ... }, from property i on, and what follows.
body_properties(openapi, ob, i, acc, name, context, jsonpath, depth) ==
  IF i > Len(ob.properties) THEN body_properties_end(acc, name)
  ELSE body_properties_resolved(openapi, ob, i, acc, name, context, jsonpath, depth,
                                resolve_schema(openapi, ob.properties[i].prop, context))

\* r is (inner, inner_diagnostics); an unresolved property ends the object
\* (return (None, diagnostics)).
body_properties_resolved(openapi, ob, i, acc, name, context, jsonpath, depth, r) ==
  IF is_none(r.value) THEN Bodied(None, acc.diagnostics \o r.diagnostics)
  ELSE body_properties_child(openapi, ob, i,
         PropsAcc(acc.bodies, acc.diagnostics \o r.diagnostics),
         name, context, jsonpath, depth,
         generate_request_body_from_schema(openapi, unwrap(r.value),
           Some(ob.properties[i].name), context,
           PathDot(jsonpath, ob.properties[i].name), depth - 1))

\* body_properties_child that gives up the object when a property yields
\* no fragment.
body_properties_child_abandoned(openapi, ob, i, acc, name, context, jsonpath, depth, c) ==
  IF c.fault # "" THEN BodyFault(c.fault)
  ELSE IF is_none(c.body) THEN Bodied(None, acc.diagnostics \o c.diagnostics)
  ELSE body_properties(openapi, ob, i + 1,
         PropsAcc(Append(acc.bodies, unwrap(c.body)), acc.diagnostics \o c.diagnostics),
         name, context, jsonpath, depth)

\* c is (request_body, inner_diagnostics).
body_properties_child(openapi, ob, i, acc, name, context, jsonpath, depth, c) ==
  IF c.fault # "" THEN BodyFault(c.fault)
  ELSE body_properties(openapi, ob, i + 1,
         PropsAcc(IF is_some(c.body) THEN Append(acc.bodies, unwrap(c.body)) ELSE acc.bodies,
                  acc.diagnostics \o c.diagnostics),
         name, context, jsonpath, depth)

\* c is (child_request_body, child_diagnostics) of the items of an array.
body_items_child(name, diagnostics, c) ==
  IF c.fault # "" THEN BodyFault(c.fault)
  ELSE IF is_none(c.body) THEN Bodied(None, diagnostics \o c.diagnostics)
  ELSE Bodied(Some(Named(name, <<P("[")>> \o unwrap(c.body) \o <<P("]")>>)),
              diagnostics \o c.diagnostics)

\* The Array arm after resolve_schema of the items; r is (inner, inner_diagnostics).
body_items_resolved(openapi, name, context, jsonpath, depth, r) ==
  IF is_none(r.value) THEN Bodied(None, r.diagnostics)
  ELSE body_items_child(name, r.diagnostics,
         generate_request_body_from_schema(openapi, unwrap(r.value), None, context,
                                           PathSuffix(jsonpath, "[]"), depth - 1))

\* match &schema.schema_kind { ... } and the final (None, diagnostics).
body_schema_kind(openapi, schema, name, context, jsonpath, depth) ==
  CASE schema.schema_kind \in UnsupportedKinds ->
         Bodied(None, <<Diag("UnsupportedSchemaKind", context, "",
                             unsupported_body_jsonpath(name, jsonpath), schema.schema_kind)>>)
    [] schema.schema_kind = "AllOf" ->
         body_all_of(openapi, schema.all_of, 1, AllOfAcc(<<>>, <<>>, <<>>), name,
                     context, jsonpath, depth)
    [] schema.schema_kind = "Boolean" ->
         Bodied(Some(single_property_formatter(name, <<L("false")>>)), <<>>)
    [] schema.schema_kind = "String" ->
         Bodied(Some(single_property_formatter(name, <<S("")>>)), <<>>)
    [] schema.schema_kind \in {"Number", "Integer"} ->
         Bodied(Some(single_property_formatter(name, <<L("0")>>)), <<>>)
    [] schema.schema_kind = "Object" ->
         body_properties(openapi, schema, 1, PropsAcc(<<>>, <<>>), name, context, jsonpath,
                         depth)
    [] schema.schema_kind = "Array" ->
         IF is_none(schema.items) THEN Bodied(None, <<>>)
         ELSE body_items_resolved(openapi, name, context, jsonpath, depth,
                                  resolve_schema(openapi, unwrap(schema.items), context))

\* depth: the frames the stack still holds.
generate_request_body_from_schema(openapi, schema, name, context, jsonpath, depth) ==
  IF depth = 0 THEN BodyFault("overflow")
  ELSE IF is_read_only(schema) THEN Bodied(None, <<>>)
  ELSE IF cycle_detected(jsonpath)
  THEN Bodied(None, <<Diag("RequestBodySchemaCycleDetected", context, "",
                           PathStr(jsonpath), "")>>)
  ELSE body_schema_kind(openapi, schema, name, context, jsonpath, depth)

(***************************************************************************)
(* generate(): the steps of its loop over the operations, as operators.    *)
(***************************************************************************)
RECURSIVE replace(_, _, _)
\* str::replace(from, to) on a string kept as its characters and words.
replace(toks, from, to) ==
  IF Len(toks) = 0 THEN <<>>
  ELSE <<IF Head(toks) = from THEN to ELSE Head(toks)>> \o replace(Tail(toks), from, to)

to_uppercase(method) ==
  CASE method = "get" -> "GET"
    [] method = "put" -> "PUT"
    [] method = "post" -> "POST"
    [] method = "delete" -> "DELETE"
    [] OTHER -> method

Digit(d) ==
  CASE d = 0 -> "0" [] d = 1 -> "1" [] d = 2 -> "2" [] d = 3 -> "3" [] d = 4 -> "4"
    [] d = 5 -> "5" [] d = 6 -> "6" [] d = 7 -> "7" [] d = 8 -> "8" [] d = 9 -> "9"

RECURSIVE u16_to_string(_)
\* format!("{}", code)
u16_to_string(n) == IF n < 10 THEN Digit(n) ELSE u16_to_string(n \div 10) \o Digit(n % 10)

\* let name = operation.operation_id.clone().unwrap_or_else(|| format!("{}_{}", ..))
operation_name(operation) ==
  IF is_some(operation.operation_id) THEN unwrap(operation.operation_id)
  ELSE operation.method \o "_" \o Str(replace(operation.path, "/", "_"))

operation_context(operation) == Context(operation_name(operation), Str(operation.path))

\* format!("{}_{}.hurl", name, code)
output_name(operation, code) == operation_name(operation) \o "_" \o u16_to_string(code) \o ".hurl"

\* path.to_string().replace("{", "{{").replace("}", "}}")
output_path(operation) == Str(replace(replace(operation.path, "{", "{{"), "}", "}}"))

Params(query, header, diagnostics) ==
  [query_parameters |-> query, header_parameters |-> header, diagnostics |-> diagnostics]

\* match found_parameter { Query => .., Header => .., _ => {} }
push_parameter(acc, parameter) ==
  CASE parameter.kind = "Query" ->
         Params(Append(acc.query_parameters, parameter.name), acc.header_parameters,
                acc.diagnostics)
    [] parameter.kind = "Header" ->
         Params(acc.query_parameters, Append(acc.header_parameters, parameter.name),
                acc.diagnostics)
    [] OTHER -> acc

push_parameter_diagnostic(acc, d) ==
  Params(acc.query_parameters, acc.header_parameters, Append(acc.diagnostics, d))

\* The Reference arm of the parameter match; name is
\* reference.split("#/components/parameters/").nth(1).
reference_parameter(openapi, context, parameter, name, acc) ==
  IF is_none(name)
  THEN push_parameter_diagnostic(acc,
         Diag("MalformedParameterReference", context, Str(parameter.reference), "", ""))
  ELSE IF ~openapi.has_components
  THEN push_parameter_diagnostic(acc, Diag("MissingComponents", NoContext, "", "", ""))
  ELSE IF unwrap(name) \notin DOMAIN openapi.parameters
  THEN push_parameter_diagnostic(acc,
         Diag("MissingParameterReference", context, Str(parameter.reference), "", ""))
  ELSE IF is_none(as_item(openapi.parameters[unwrap(name)])) THEN acc
  ELSE push_parameter(acc, unwrap(as_item(openapi.parameters[unwrap(name)])))

RECURSIVE generate_parameters(_, _, _, _)
\* for parameter in operation.parameters.iter() { ... }, from parameter i on.
generate_parameters(openapi, operation, i, acc) ==
  IF i > Len(operation.parameters) THEN acc
  ELSE generate_parameters(openapi, operation, i + 1,
         IF ~operation.parameters[i].is_ref
         THEN push_parameter(acc, unwrap(operation.parameters[i].item))
         ELSE reference_parameter(openapi, operation_context(operation),
                operation.parameters[i],
                split_nth_1(operation.parameters[i].reference, ParametersPrefix), acc))

\* Media types that start with "application/json", among those the documents
\* of the model use (media_type_key.starts_with("application/json")).
JsonMediaTypes == {"application/json", "application/json; charset=utf-8"}
RECURSIVE find_json_media_type(_, _)
\* The first entry of content whose key starts with "application/json".
find_json_media_type(content, i) ==
  IF i > Len(content) THEN None
  ELSE IF content[i].key \in JsonMediaTypes THEN Some(content[i])
  ELSE find_json_media_type(content, i + 1)

RequestBodyResult(parameter, diagnostics, fault) ==
  [request_body_parameter |-> parameter, diagnostics |-> diagnostics, fault |-> fault,
   request_body_parameter_tuple |-> None]

\* The call of generate_request_body_from_schema and what it returned, kept
\* next to what the block leaves.
Synthesized(r, schema, b) ==
  [r EXCEPT !.request_body_parameter_tuple = Some([schema |-> schema, result |-> b])]

\* a is serde_json::from_str::<Value>(body), unwrapped here; then to_string_pretty.
request_body_parsed(diagnostics, a) ==
  IF is_none(a) THEN RequestBodyResult(None, <<>>, "unwrap")
  ELSE RequestBodyResult(Some(FragStr(to_string_pretty(unwrap(a)))), diagnostics, "")

\* b is request_body_parameter_tuple.
request_body_synthesized(diagnostics, schema, b) ==
  IF b.fault # "" THEN Synthesized(RequestBodyResult(None, <<>>, b.fault), schema, b)
  ELSE IF is_none(b.body)
  THEN Synthesized(RequestBodyResult(None, diagnostics \o b.diagnostics, ""), schema, b)
  ELSE Synthesized(request_body_parsed(diagnostics \o b.diagnostics, from_str(unwrap(b.body))),
                   schema, b)

\* sc is (schema, inner_diagnostics) of resolve_schema.
request_body_schema(openapi, context, diagnostics, sc) ==
  IF is_none(sc.value) THEN RequestBodyResult(None, diagnostics \o sc.diagnostics, "")
  ELSE request_body_synthesized(diagnostics \o sc.diagnostics, unwrap(sc.value),
         generate_request_body_from_schema(openapi, unwrap(sc.value), None, context,
                                           RootPath, MaxDepth))

\* media_type is the application/json entry of the content, if any.
request_body_media_type(openapi, context, diagnostics, media_type) ==
  IF is_none(media_type)
  THEN RequestBodyResult(None, Append(diagnostics,
         Diag("MissingApplicationJsonRequestBodyMediaType", context, "", "", "")), "")
  ELSE IF is_none(unwrap(media_type).schema)
  THEN RequestBodyResult(None, Append(diagnostics,
         Diag("MissingSchemaDefinitionForMediaType", context, "", "", "")), "")
  ELSE request_body_schema(openapi, context, diagnostics,
         resolve_schema(openapi, unwrap(unwrap(media_type).schema), context))

\* rb is (request_body, inner_diagnostics) of resolve_request_body.
request_body_resolved(openapi, context, rb) ==
  IF is_none(rb.value) THEN RequestBodyResult(None, rb.diagnostics, "")
  ELSE request_body_media_type(openapi, context, rb.diagnostics,
                               find_json_media_type(unwrap(rb.value).content, 1))

\* while let Some(request_body) = &operation.request_body { ...; break; }
generate_request_body(openapi, operation) ==
  IF is_none(operation.request_body) THEN RequestBodyResult(None, <<>>, "")
  ELSE request_body_resolved(openapi, operation_context(operation),
         resolve_request_body(openapi, unwrap(operation.request_body),
                              operation_context(operation)))

Output(code, name, path, method, header, query, asserts, body) ==
  [expected_status_code |-> code, name |-> name, path |-> path, method |-> method,
   header_parameters |-> header, query_parameters |-> query, asserts |-> asserts,
   request_body_parameter |-> body]

ResponseResult(outputs, diagnostics, fault) ==
  [outputs |-> outputs, diagnostics |-> diagnostics, fault |-> fault, new_asserts |-> None]

\* The call of generate_assert_from_schema and what it returned, kept next to
\* what the turn of the loop leaves.
Asserting(r, schema, a) ==
  [r EXCEPT !.new_asserts = Some([schema |-> schema, result |-> a])]

\* request_body_parameter.clone().unwrap_or("".to_string())
unwrap_or_empty(o) == IF is_some(o) THEN unwrap(o) ELSE ""

\* Locals that each record takes afresh, as they are at the top of the loop body.
Locals_fresh(header, query, body) ==
  [header_parameters |-> <<>>, query_parameters |-> <<>>,
   request_body_parameter |-> None]

\* The locals of the loop body an Output takes.
Locals(header, query, body) ==
  [header_parameters |-> header, query_parameters |-> query,
   request_body_parameter |-> body]

\* a is (new_asserts, new_diagnostics); the Output of the status code.
response_asserted(operation, code, locals, diagnostics, schema, a) ==
  IF a.overflow THEN Asserting(ResponseResult(<<>>, <<>>, "overflow"), schema, a)
  ELSE Asserting(ResponseResult(
         <<Output(code, output_name(operation, code), output_path(operation),
                  to_uppercase(operation.method), locals.header_parameters,
                  locals.query_parameters, unique(a.asserts),
                  unwrap_or_empty(locals.request_body_parameter))>>,
         diagnostics \o a.diagnostics, ""), schema, a)

\* sc is (schema, inner_diagnostics) of resolve_schema.
response_schema(openapi, operation, code, locals, diagnostics, sc) ==
  IF is_none(sc.value) THEN ResponseResult(<<>>, diagnostics \o sc.diagnostics, "")
  ELSE response_asserted(operation, code, locals, diagnostics \o sc.diagnostics,
         unwrap(sc.value),
         generate_assert_from_schema(openapi, unwrap(sc.value), RootPath, TRUE,
                                     operation_context(operation), MaxDepth))

\* media_type is the application/json entry of the content, if any.
response_media_type(openapi, operation, code, locals, diagnostics, media_type) ==
  IF is_none(media_type)
  THEN ResponseResult(<<>>, Append(diagnostics,
         Diag("MissingApplicationJsonResponseBodyMediaType", operation_context(operation),
              "", "", "")), "")
  ELSE IF is_none(unwrap(media_type).schema)
  THEN ResponseResult(<<>>, Append(diagnostics,
         Diag("MissingSchemaDefinitionForMediaType", operation_context(operation),
              "", "", "")), "")
  ELSE response_schema(openapi, operation, code, locals, diagnostics,
         resolve_schema(openapi, unwrap(unwrap(media_type).schema),
                        operation_context(operation)))

\* rs is (response, inner_diagnostics) of resolve_response.
response_resolved(openapi, operation, code, locals, rs) ==
  IF is_none(rs.value) THEN ResponseResult(<<>>, rs.diagnostics, "")
  ELSE response_media_type(openapi, operation, code, locals, rs.diagnostics,
                           find_json_media_type(unwrap(rs.value).content, 1))

\* generate_response that takes a range entry for the code it starts with.
generate_response_of_range(openapi, operation, entry, locals) ==
  response_resolved(openapi, operation, entry.status_code.code * 100, locals,
    resolve_response(openapi, entry.response, operation_context(operation)))

\* One turn of for (status_code, response) in operation.responses.responses.iter().
generate_response(openapi, operation, entry, locals) ==
  IF entry.status_code.is_range
  THEN ResponseResult(<<>>, <<Diag("UnsupportedStatusCodeRange",
                                   operation_context(operation), "", "", "")>>, "")
  ELSE response_resolved(openapi, operation, entry.status_code.code, locals,
         resolve_response(openapi, entry.response, operation_context(operation)))

(***************************************************************************)
(* generate() as one function of the document: the same steps, folded over *)
(* the responses of an operation and over the operations.                  *)
(***************************************************************************)
GenerateResult(outputs, diagnostics, fault) ==
  [outputs |-> outputs, diagnostics |-> diagnostics, fault |-> fault]

RECURSIVE generate_responses(_, _, _, _, _)
RECURSIVE generate_responses_turn(_, _, _, _, _, _)
\* for (status_code, response) in operation.responses.responses.iter(), from
\* entry i on, acc so far.
generate_responses(openapi, operation, i, locals, acc) ==
  IF i > Len(operation.responses) THEN acc
  ELSE generate_responses_turn(openapi, operation, i, locals, acc,
         generate_response(openapi, operation, operation.responses[i], locals))

\* r is what the turn for entry i leaves.
generate_responses_turn(openapi, operation, i, locals, acc, r) ==
  IF r.fault # "" THEN GenerateResult(<<>>, <<>>, r.fault)
  ELSE generate_responses(openapi, operation, i + 1, locals,
         GenerateResult(acc.outputs \o r.outputs, acc.diagnostics \o r.diagnostics, ""))

\* rb is what the request-body block leaves, p what the parameters loop leaves.
generate_operation_body(openapi, operation, acc, p, rb) ==
  IF rb.fault # "" THEN GenerateResult(<<>>, <<>>, rb.fault)
  ELSE generate_responses(openapi, operation, 1,
         Locals(p.header_parameters, p.query_parameters, rb.request_body_parameter),
         GenerateResult(acc.outputs, acc.diagnostics \o p.diagnostics \o rb.diagnostics, ""))

\* One turn of for (path, method, operation) in openapi.operations().
generate_operation(openapi, operation, acc) ==
  generate_operation_body(openapi, operation, acc,
    generate_parameters(openapi, operation, 1, Params(<<>>, <<>>, <<>>)),
    generate_request_body(openapi, operation))

RECURSIVE generate_operations(_, _, _)
RECURSIVE generate_operations_turn(_, _, _)
generate_operations(openapi, i, acc) ==
  IF i > Len(openapi.operations) THEN acc
  ELSE generate_operations_turn(openapi, i,
         generate_operation(openapi, openapi.operations[i], acc))

generate_operations_turn(openapi, i, acc) ==
  IF acc.fault # "" THEN acc ELSE generate_operations(openapi, i + 1, acc)

\* fn generate(openapi: openapiv3::OpenAPI) -> GenerateResult; a fault means
\* that the process ended inside and nothing was returned.
generate(openapi) == generate_operations(openapi, 1, GenerateResult(<<>>, <<>>, ""))

(***************************************************************************)
(* The documents generate() is run on.                                     *)
(***************************************************************************)
SRef(name) == Ref(<<SchemasPrefix, name>>)
MediaType(key, schema) == [key |-> key, schema |-> schema]
JsonContent(schema) == <<MediaType("application/json", Some(schema))>>
Content(content) == [content |-> content]
Parameter(kind, name) == [kind |-> kind, name |-> name]
Code(n) == [is_range |-> FALSE, code |-> n]
StatusRange(n) == [is_range |-> TRUE, code |-> n]
Entry(status_code, response) == [status_code |-> status_code, response |-> response]
Operation(path, method, operation_id, parameters, request_body, responses) ==
  [path |-> path, method |-> method, operation_id |-> operation_id,
   parameters |-> parameters, request_body |-> request_body, responses |-> responses]
OpenAPI(has_components, schemas, operations) ==
  [has_components |-> has_components,
   schemas |-> schemas,
   responses |-> ("Ok" :> Item(Content(JsonContent(SRef("A")))))
                 @@ ("Chained" :> Ref(<<ResponsesPrefix, "Ok">>)),
   request_bodies |-> ("Body" :> Item(Content(JsonContent(SRef("A")))))
                      @@ ("Chained" :> Ref(<<RequestBodiesPrefix, "Body">>)),
   parameters |-> ("limit" :> Item(Parameter("Query", "limit")))
                  @@ ("token" :> Item(Parameter("Header", "X-Token")))
                  @@ ("Chained" :> Ref(<<ParametersPrefix, "limit">>)),
   operations |-> operations]

\* Schemas an object property, an array or an allOf refers to.
Leaves ==
  { Item(Prim("Integer")), Item(Prim("String")),
    Item(WriteOnly(Prim("Integer"))), Item(ReadOnly(Prim("String"))),
    Item(Schema("OneOf", FALSE, FALSE, <<>>, None, <<>>, {})),
    SRef("A"), SRef("B"), SRef("Widget"), SRef("Chained"),
    Ref(<<"#/definitions/", "A">>) }

\* Component schema A.
ShapesA ==
  { Obj(<<Prop(n, l)>>, r) : n \in {"p", "@p"}, l \in Leaves, r \in {{}, {"p", "@p"}} }
  \cup { Obj(<<Prop("id", l1), Prop("name", l2)>>, r) :
           l1 \in Leaves, l2 \in Leaves, r \in {{}, {"id"}, {"id", "name"}} }
  \cup { Obj(<<Prop("x", Item(Prim("Boolean"))), Prop("y", Item(Prim("Number")))>>, r) :
           r \in {{}, {"y"}, {"x", "y"}} }
  \cup { Arr(i) : i \in {None} \cup {Some(l) : l \in Leaves} }
  \cup { AllOf(<<l>>) : l \in Leaves }
  \cup { AllOf(<<l1, l2>>) : l1 \in Leaves, l2 \in Leaves }

\* Component schema B.
ShapesB ==
  { Prim("Integer"),
    Obj(<<Prop("p", SRef("A"))>>, {"p"}),
    Obj(<<Prop("q", SRef("A"))>>, {}),
    Arr(Some(SRef("A"))),
    WriteOnly(Obj(<<Prop("x", Item(Prim("Integer")))>>, {"x"})),
    ReadOnly(Obj(<<Prop("x", Item(Prim("Integer")))>>, {"x"})),
    Obj(<<Prop("x", Item(Prim("Boolean"))), Prop("y", Item(Prim("Number")))>>, {"x", "y"}),
    Obj(<<Prop("x", Item(WriteOnly(Prim("Integer")))),
          Prop("y", Item(Arr(Some(Item(ReadOnly(Prim("String")))))))>>, {"x"}) }

\* The schema of the request body and of the 200 response.
Roots == { SRef("A"), Item(Arr(Some(SRef("A")))) }

\* One operation whose request body and whose 200 response have the schema root.
SchemaOperation(root) ==
  Operation(<<"/", "pets">>, "post", Some("createPet"), <<>>,
            Some(Item(Content(JsonContent(root)))),
            <<Entry(Code(200), Item(Content(JsonContent(root))))>>)

SchemaDocuments ==
  { OpenAPI(TRUE, ("A" :> Item(a)) @@ ("B" :> Item(b)) @@ ("Chained" :> SRef("A")),
            <<SchemaOperation(root)>>) :
      a \in ShapesA, b \in ShapesB, root \in Roots }

\* The component schemas of the documents that vary the operations: Loop is
\* its own allOf member, Pair an allOf of two primitives.
OperationSchemas ==
  ("A" :> Item(Obj(<<Prop("id", Item(Prim("Integer"))), Prop("name", Item(Prim("String")))>>,
                   {"id"})))
  @@ ("Loop" :> Item(AllOf(<<SRef("Loop")>>)))
  @@ ("Pair" :> Item(AllOf(<<Item(Prim("Integer")), Item(Prim("String"))>>)))
  @@ ("Chained" :> SRef("A"))

RequestBodies ==
  { None,
    Some(Item(Content(JsonContent(SRef("A"))))),
    Some(Ref(<<RequestBodiesPrefix, "Body">>)),
    Some(Ref(<<RequestBodiesPrefix, "Nope">>)),
    Some(Ref(<<"#/requestBodies/", "Body">>)),
    Some(Ref(<<RequestBodiesPrefix, "Chained">>)),
    Some(Item(Content(<<MediaType("text/plain", None)>>))),
    Some(Item(Content(<<MediaType("application/json", None)>>))),
    Some(Item(Content(JsonContent(SRef("Widget"))))),
    Some(Item(Content(JsonContent(SRef("Pair"))))),
    Some(Item(Content(JsonContent(SRef("Loop"))))),
    Some(Ref(<<"x", RequestBodiesPrefix, "Body">>)),
    Some(Item(Content(JsonContent(Ref(<<"x", SchemasPrefix, "A">>))))) }

ResponseEntries ==
  { Entry(Code(200), Item(Content(JsonContent(SRef("A"))))),
    Entry(Code(200), Ref(<<ResponsesPrefix, "Ok">>)),
    Entry(Code(404), Ref(<<ResponsesPrefix, "Nope">>)),
    Entry(Code(400), Ref(<<"#/responses/", "Ok">>)),
    Entry(Code(409), Ref(<<ResponsesPrefix, "Chained">>)),
    Entry(Code(204), Item(Content(<<>>))),
    Entry(Code(202), Item(Content(<<MediaType("application/json", None)>>))),
    Entry(Code(422), Item(Content(JsonContent(SRef("Widget"))))),
    Entry(StatusRange(5), Item(Content(JsonContent(SRef("A"))))),
    Entry(Code(500), Item(Content(JsonContent(SRef("Loop"))))),
    Entry(Code(201), Item(Content(<<MediaType("text/plain", None),
                                    MediaType("application/json; charset=utf-8",
                                              Some(SRef("A")))>>))),
    Entry(Code(403), Ref(<<"x", ResponsesPrefix, "Ok">>)),
    Entry(Code(410), Item(Content(JsonContent(Ref(<<"x", SchemasPrefix, "A">>))))) }

\* The entries a second place of a responses map is filled with.
SecondEntries ==
  { Entry(Code(201), Item(Content(JsonContent(SRef("A"))))),
    Entry(Code(404), Ref(<<ResponsesPrefix, "Nope">>)),
    Entry(StatusRange(4), Item(Content(JsonContent(SRef("A"))))),
    Entry(Code(500), Item(Content(JsonContent(SRef("Loop"))))) }

\* responses is a map: no status code twice.
ResponseLists ==
  { <<e>> : e \in ResponseEntries }
  \cup { l \in { <<e1, e2>> : e1 \in ResponseEntries, e2 \in SecondEntries } :
             l[1].status_code # l[2].status_code }
  \cup { <<e2, e1>> : e1 \in {e \in ResponseEntries : e.status_code.code \in {200, 204}},
                      e2 \in {e \in SecondEntries : e.status_code.is_range} }

\* (path, method, operation_id, parameters) of the first operation of a document.
Heads ==
  { <<<<"/", "pets">>, "get", Some("listPets"), 1>>,
    <<<<"/", "pets", "/", "{", "id", "}">>, "put", None, 1>>,
    <<<<"/", "pets">>, "post", Some("createPet"), 2>> }

ParameterList(n) ==
  IF n = 1 THEN <<>>
  ELSE << Item(Parameter("Query", "limit")), Ref(<<ParametersPrefix, "token">>),
          Item(Parameter("Path", "id")), Ref(<<ParametersPrefix, "Chained">>),
          Ref(<<ParametersPrefix, "Nope">>), Ref(<<"#/parameters/", "limit">>),
          Item(Parameter("Header", "X-Trace")), Ref(<<ParametersPrefix, "limit">>),
          Ref(<<"x", ParametersPrefix, "token">>) >>

Operations ==
  { Operation(h[1], h[2], h[3], ParameterList(h[4]), rb, rs) :
      h \in Heads, rb \in RequestBodies, rs \in ResponseLists }

\* The operations a document of two operations is made of.
FirstOperations ==
  { Operation(<<"/", "pets">>, "get", Some("listPets"), ParameterList(2), rb, rs) :
      rb \in {None, Some(Item(Content(JsonContent(SRef("A"))))),
              Some(Item(Content(JsonContent(SRef("Pair"))))),
              Some(Item(Content(JsonContent(SRef("Loop")))))},
      rs \in { <<Entry(Code(200), Item(Content(JsonContent(SRef("A")))))>>,
               <<Entry(Code(404), Ref(<<ResponsesPrefix, "Nope">>)),
                 Entry(StatusRange(5), Item(Content(JsonContent(SRef("A")))))>>,
               <<Entry(Code(200), Item(Content(JsonContent(SRef("A"))))),
                 Entry(Code(500), Item(Content(JsonContent(SRef("Loop")))))>> } }
SecondOperations ==
  { Operation(<<"/", "pets", "/", "{", "id", "}">>, "delete", None, <<>>, rb, rs) :
      rb \in {None, Some(Ref(<<RequestBodiesPrefix, "Body">>)),
              Some(Item(Content(JsonContent(SRef("Pair")))))},
      rs \in { <<Entry(Code(204), Item(Content(<<>>)))>>,
               <<Entry(Code(200), Ref(<<ResponsesPrefix, "Ok">>))>>,
               <<Entry(Code(200), Item(Content(JsonContent(SRef("Loop")))))>> } }

OperationDocuments ==
  { OpenAPI(TRUE, OperationSchemas, <<o>>) : o \in Operations }
  \cup { OpenAPI(TRUE, OperationSchemas, <<o1, o2>>) :
           o1 \in FirstOperations, o2 \in SecondOperations }
  \cup { OpenAPI(TRUE, OperationSchemas, <<o2, o1>>) :
           o1 \in FirstOperations, o2 \in SecondOperations }
  \cup { OpenAPI(TRUE, OperationSchemas, <<>>) }

\* Documents without a components section.
BareDocuments ==
  { OpenAPI(FALSE, <<>>, <<o>>) :
      o \in { Operation(<<"/", "pets">>, "get", Some("listPets"), ParameterList(n), rb, rs) :
                n \in {1, 2},
                rb \in {None, Some(Ref(<<RequestBodiesPrefix, "Body">>)),
                        Some(Item(Content(JsonContent(SRef("A"))))),
                        Some(Item(Content(JsonContent(Item(Prim("String"))))))},
                rs \in { <<Entry(Code(200), Ref(<<ResponsesPrefix, "Ok">>))>>,
                         <<Entry(Code(200), Item(Content(JsonContent(SRef("A")))))>>,
                         <<Entry(Code(200), Item(Content(JsonContent(
                             Item(Obj(<<Prop("id", SRef("A")),
                                        Prop("name", Item(Prim("String")))>>, {"id"}))))))>>,
                         <<Entry(Code(200), Ref(<<"#/responses/", "Ok">>))>> } } }

\* The members of the documents whose component schema A is an allOf of objects.
MemberObjects ==
  { Item(Obj(<<Prop("id", Item(Prim("Integer"))), Prop("name", Item(Prim("String")))>>,
             {"id"})),
    Item(Obj(<<Prop("id", Item(Prim("String")))>>, {})),
    Item(Obj(<<Prop("tag", Item(Prim("Boolean")))>>, {"tag"})),
    Item(Obj(<<Prop("name", Item(ReadOnly(Prim("String")))),
               Prop("tag", Item(Prim("Number")))>>, {"name"})),
    Item(Obj(<<Prop("id", Item(ReadOnly(Prim("Integer"))))>>, {"id"})),
    Item(Obj(<<>>, {})),
    SRef("B") }

AllOfShapes ==
  { AllOf(<<m1>>) : m1 \in MemberObjects }
  \cup { AllOf(<<m1, m2>>) : m1 \in MemberObjects, m2 \in MemberObjects }
  \cup { AllOf(<<m1, m2, m3>>) : m1 \in MemberObjects, m2 \in MemberObjects,
                                 m3 \in MemberObjects }

AllOfDocuments ==
  { OpenAPI(TRUE,
            ("A" :> Item(a))
            @@ ("B" :> Item(Obj(<<Prop("x", Item(Prim("Boolean"))),
                                  Prop("y", Item(Prim("Number")))>>, {"x"})))
            @@ ("Chained" :> SRef("A")),
            <<SchemaOperation(SRef("A"))>>) : a \in AllOfShapes }

\* allOf members that describe the same property pet, each with a part of it.
DiamondMembers ==
  { Item(Obj(<<Prop("pet", Item(Obj(<<Prop("id", Item(Prim("Integer")))>>, {"id"})))>>,
             {"pet"})),
    Item(Obj(<<Prop("pet", Item(Obj(<<Prop("name", Item(Prim("String")))>>, {"name"})))>>,
             {})),
    Item(Obj(<<Prop("pet", Item(Arr(Some(Item(Prim("String"))))))>>, {"pet"})) }

DiamondDocuments ==
  { OpenAPI(TRUE, ("A" :> Item(AllOf(<<m1, m2>>))), <<SchemaOperation(SRef("A"))>>) :
      m1 \in DiamondMembers, m2 \in DiamondMembers }

\* Component schema A with a oneOf, anyOf, not or untyped schema in it: as A
\* itself, as a property between two others, as the element of an array, as
\* an allOf member, and as properties at two levels.
UnsupportedShapes ==
  { Schema(k, FALSE, FALSE, <<>>, None, <<>>, {}) : k \in UnsupportedKinds }
  \cup { Obj(<<Prop("id", Item(Prim("Integer"))),
               Prop("u", Item(Schema(k, FALSE, FALSE, <<>>, None, <<>>, {}))),
               Prop("name", Item(Prim("String")))>>, {"id", "u", "name"}) :
           k \in UnsupportedKinds }
  \cup { Arr(Some(Item(Schema(k, FALSE, FALSE, <<>>, None, <<>>, {})))) :
           k \in UnsupportedKinds }
  \cup { AllOf(<<Item(Schema(k, FALSE, FALSE, <<>>, None, <<>>, {})),
                 Item(Obj(<<Prop("id", Item(Prim("Integer")))>>, {"id"}))>>) :
           k \in UnsupportedKinds }
  \cup { Obj(<<Prop("u", Item(Schema(k1, FALSE, FALSE, <<>>, None, <<>>, {}))),
               Prop("v", Item(Obj(<<Prop("w", Item(Schema(k2, FALSE, FALSE, <<>>, None,
                                                          <<>>, {}))),
                                    Prop("x", Item(Prim("Boolean")))>>, {"x"})))>>,
             {"v"}) :
           k1 \in {"OneOf", "Any"}, k2 \in {"AnyOf", "Not"} }

UnsupportedDocuments ==
  { OpenAPI(TRUE, ("A" :> Item(a)), <<SchemaOperation(SRef("A"))>>) :
      a \in UnsupportedShapes }

\* Component schema A with an allOf whose members are not all objects: one
\* primitive or array member, an array next to an object, several primitives,
\* an allOf as member, and an allOf as a property of an object.
PolymorphicShapes ==
  { AllOf(<<Item(Arr(Some(Item(Prim("Integer")))))>>),
    AllOf(<<Item(Prim("Boolean"))>>),
    AllOf(<<Item(Arr(Some(Item(Prim("Integer"))))),
            Item(Obj(<<Prop("id", Item(Prim("Integer")))>>, {"id"}))>>),
    AllOf(<<Item(Prim("Integer")), Item(Prim("String")), Item(Prim("Boolean"))>>),
    AllOf(<<Item(AllOf(<<Item(Obj(<<Prop("id", Item(Prim("Integer")))>>, {"id"}))>>)),
            Item(Obj(<<Prop("name", Item(Prim("String")))>>, {}))>>),
    AllOf(<<Item(AllOf(<<Item(Prim("Integer")), Item(Prim("String"))>>)),
            Item(Obj(<<Prop("name", Item(Prim("String")))>>, {}))>>),
    Obj(<<Prop("id", Item(Prim("Integer"))),
          Prop("tag", Item(AllOf(<<Item(Prim("String"))>>)))>>, {"id"}),
    Obj(<<Prop("id", Item(Prim("Integer"))),
          Prop("pair", Item(AllOf(<<Item(Prim("Integer")), Item(Prim("String"))>>)))>>,
        {"id"}),
    Obj(<<Prop("pet", Item(AllOf(<<Item(Obj(<<Prop("id", Item(Prim("Integer")))>>, {})),
                                   Item(Obj(<<Prop("name", Item(Prim("String")))>>, {}))>>)))>>,
        {"pet"}) }

PolymorphicDocuments ==
  { OpenAPI(TRUE, ("A" :> Item(a)), <<SchemaOperation(SRef("A"))>>) :
      a \in PolymorphicShapes }

\* Component schema A without any reference in it, with objects in objects:
\* property names that come again further down ($.data.data, $.a.b.a) and
\* names that do not.
NestedShapes ==
  { Obj(<<Prop("data", Item(Obj(<<Prop("data", Item(Prim("Integer")))>>, {"data"})))>>,
        {"data"}),
    Obj(<<Prop("a", Item(Obj(<<Prop("b", Item(Obj(<<Prop("a", Item(Prim("String")))>>,
                                                  {"a"})))>>, {"b"})))>>, {"a"}),
    Obj(<<Prop("id", Item(Prim("Integer"))),
          Prop("data", Item(Obj(<<Prop("id", Item(Prim("Integer"))),
                                  Prop("data", Item(Arr(Some(Item(Prim("String"))))))>>,
                                {"id"})))>>, {"id", "data"}),
    Obj(<<Prop("a", Item(Obj(<<Prop("b", Item(Obj(<<Prop("c", Item(Prim("String")))>>,
                                                  {"c"})))>>, {"b"})))>>, {"a"}) }

NestedDocuments ==
  { OpenAPI(TRUE, ("A" :> Item(a)), <<SchemaOperation(SRef("A"))>>) : a \in NestedShapes }

Documents ==
  SchemaDocuments \cup OperationDocuments \cup BareDocuments \cup AllOfDocuments
  \cup DiamondDocuments \cup UnsupportedDocuments \cup PolymorphicDocuments
  \cup NestedDocuments

(***************************************************************************)
(* The state machine of generate().                                        *)
(***************************************************************************)
VARIABLES
  openapi,                 \* the document (never changes)
  pc,                      \* where generate() is
  op_i,                    \* the operation the outer loop is at
  response_i,              \* the response the inner loop is at
  query_parameters,        \* locals of the outer loop body
  header_parameters,
  request_body_parameter,
  request_body_parameter_tuple,  \* the last call of the body synthesizer, if any
  new_asserts,             \* the last call of the assertion synthesizer, if any
  outputs,                 \* the two vectors generate() returns
  diagnostics,
  args,                    \* GenerateArgs: output, only_new
  files,                   \* the regular files of the file system, by path
  existing_files,          \* locals of main()
  final_outputs,
  write_i,                 \* the output the loop of write_outputs is at
  created                  \* the paths File::create has opened, in order

generate_locals == <<op_i, response_i, query_parameters, header_parameters,
                     request_body_parameter, request_body_parameter_tuple, new_asserts>>
main_vars == <<args, files, existing_files, final_outputs, write_i, created>>
vars == <<openapi, pc, op_i, response_i, query_parameters, header_parameters,
          request_body_parameter, request_body_parameter_tuple, new_asserts,
          outputs, diagnostics, args, files, existing_files, final_outputs, write_i,
          created>>

Init ==
  /\ openapi \in Documents
  /\ pc = "parameters"
  /\ op_i = 1
  /\ response_i = 1
  /\ query_parameters = <<>>
  /\ header_parameters = <<>>
  /\ request_body_parameter = None
  /\ request_body_parameter_tuple = None
  /\ new_asserts = None
  /\ outputs = <<>>
  /\ diagnostics = <<>>
  /\ args = [output |-> <<"out">>, only_new |-> FALSE]
  /\ files = {}
  /\ existing_files = <<>>
  /\ final_outputs = <<>>
  /\ write_i = 1
  /\ created = <<>>

operation == openapi.operations[op_i]
Faults == {"overflow", "unwrap"}
Aborted == pc \in Faults

\* r is what the loop over the parameters leaves.
ParametersDone(r) ==
  /\ query_parameters' = r.query_parameters
  /\ header_parameters' = r.header_parameters
  /\ diagnostics' = diagnostics \o r.diagnostics

\* Lines 493-558: the next operation, its name and its parameters.
Parameters ==
  /\ pc = "parameters"
  /\ op_i <= Len(openapi.operations)
  /\ ParametersDone(generate_parameters(openapi, operation, 1, Params(<<>>, <<>>, <<>>)))
  /\ request_body_parameter' = None
  /\ request_body_parameter_tuple' = None
  /\ new_asserts' = None
  /\ pc' = "request_body"
  /\ UNCHANGED <<openapi, op_i, response_i, outputs>>
  /\ UNCHANGED main_vars

\* r is what the request-body block leaves; a fault ends the process.
RequestBodyDone(r) ==
  /\ request_body_parameter' = r.request_body_parameter
  /\ request_body_parameter_tuple' = r.request_body_parameter_tuple
  /\ diagnostics' = diagnostics \o r.diagnostics
  /\ pc' = IF r.fault # "" THEN r.fault ELSE "responses"

\* Lines 560-609: the request body of the operation.
RequestBody ==
  /\ pc = "request_body"
  /\ RequestBodyDone(generate_request_body(openapi, operation))
  /\ response_i' = 1
  /\ UNCHANGED <<openapi, op_i, query_parameters, header_parameters, new_asserts, outputs>>
  /\ UNCHANGED main_vars

\* ResponseDone that replaces the diagnostics by those of the turn.
ResponseDone_replaced(r) ==
  /\ outputs' = outputs \o r.outputs
  /\ new_asserts' = r.new_asserts
  /\ diagnostics' = r.diagnostics
  /\ pc' = IF r.fault # "" THEN r.fault ELSE "responses"

\* r is what one turn of the loop over the responses leaves.
ResponseDone(r) ==
  /\ outputs' = outputs \o r.outputs
  /\ new_asserts' = r.new_asserts
  /\ diagnostics' = diagnostics \o r.diagnostics
  /\ pc' = IF r.fault # "" THEN r.fault ELSE "responses"

\* Lines 611-681: one entry of the responses of the operation.
Response ==
  /\ pc = "responses"
  /\ response_i <= Len(operation.responses)
  /\ ResponseDone(generate_response(openapi, operation, operation.responses[response_i],
                    Locals(header_parameters, query_parameters, request_body_parameter)))
  /\ response_i' = response_i + 1
  /\ UNCHANGED <<openapi, op_i, query_parameters, header_parameters, request_body_parameter,
                 request_body_parameter_tuple>>
  /\ UNCHANGED main_vars

\* Line 682: the responses are through, on to the next operation.
NextOperation ==
  /\ pc = "responses"
  /\ response_i > Len(operation.responses)
  /\ op_i' = op_i + 1
  /\ pc' = "parameters"
  /\ UNCHANGED <<openapi, response_i, query_parameters, header_parameters,
                 request_body_parameter, request_body_parameter_tuple, new_asserts,
                 outputs, diagnostics>>
  /\ UNCHANGED main_vars

\* Lines 684-687: GenerateResult { outputs, diagnostics }.
Return ==
  /\ pc = "parameters"
  /\ op_i > Len(openapi.operations)
  /\ pc' = "done"
  /\ UNCHANGED <<openapi, op_i, response_i, query_parameters, header_parameters,
                 request_body_parameter, request_body_parameter_tuple, new_asserts,
                 outputs, diagnostics>>
  /\ UNCHANGED main_vars

Next == Parameters \/ RequestBody \/ Response \/ NextOperation \/ Return

Spec == Init /\ [][Next]_vars

(***************************************************************************)
(* main(): generate, --only-new, write_outputs.                            *)
(* A path (PathBuf) is kept as what Path::components() yields: a sequence  *)
(* of names, "." for CurDir (kept only in front) and ".." for ParentDir.   *)
(* No path of the model is absolute.                                       *)
(***************************************************************************)
\* The file names the output names of MainDocuments end with.
FileNames ==
  { id \o "_" \o u16_to_string(code) \o ".hurl" :
      id \in {"listPets", "createPet", "get__a_b"}, code \in {200, 404} }

\* The ways such a name is cut at its '/'.
SegmentLists ==
  { <<f>> : f \in FileNames } \cup { <<d, f>> : d \in {".", "pets"}, f \in FileNames }

\* name.split('/'), by search among the names of the model.
split_slash(name) == CHOOSE l \in SegmentLists : Join(l, "/") = name

RECURSIVE normal_components(_, _)
\* Path::components(): an empty segment and a "." that is not in front are
\* left out; i is the segment at hand.
normal_components(segments, i) ==
  IF i > Len(segments) THEN <<>>
  ELSE (IF segments[i] = "" \/ (segments[i] = "." /\ i > 1) THEN <<>>
        ELSE <<segments[i]>>) \o normal_components(segments, i + 1)

\* PathBuf::from(&o.name)
PathBuf_from(name) == normal_components(split_slash(name), 1)

\* Path::ends_with: the components of child are the last components of p.
ends_with(p, child) ==
  /\ Len(child) <= Len(p)
  /\ SubSeq(p, Len(p) - Len(child) + 1, Len(p)) = child

RECURSIVE filter_only_new_outputs(_, _)
\* outputs.into_iter().filter(|o| !existing_files.iter().any(|p| p.ends_with(..)))
filter_only_new_outputs(existing, outs) ==
  IF Len(outs) = 0 THEN <<>>
  ELSE (IF \E n \in 1..Len(existing) : ends_with(existing[n], PathBuf_from(Head(outs).name))
        THEN <<>> ELSE <<Head(outs)>>)
       \o filter_only_new_outputs(existing, Tail(outs))

\* file_path.push(&output.name), the name being relative.
push(path, name) == path \o PathBuf_from(name)

RECURSIVE canonical(_, _)
\* The file a path names: "." stays, ".." goes up; acc is the path so far.
canonical(path, acc) ==
  IF Len(path) = 0 THEN acc
  ELSE canonical(Tail(path),
         IF Head(path) = "." THEN acc
         ELSE IF Head(path) = ".." THEN SubSeq(acc, 1, Len(acc) - 1)
         ELSE Append(acc, Head(path)))

\* The directories of the file system.
Directories == { <<>>, <<"out">>, <<"pets">>, <<"out", "pets">> }

\* One operation with string responses for the codes.
NamedOperation(path, method, operation_id, codes) ==
  Operation(path, method, operation_id, <<>>, None,
    [n \in 1..Len(codes) |->
       Entry(Code(codes[n]), Item(Content(JsonContent(Item(Prim("String"))))))])

MainFirstOperations ==
  { NamedOperation(<<"/", "pets">>, "get", id, codes) :
      id \in {Some("listPets"), Some("./listPets"), Some("pets/listPets")},
      codes \in {<<200>>, <<200, 404>>} }
  \cup { NamedOperation(<<"/", "a", "/", "b">>, "get", None, <<200>>) }
MainSecondOperations ==
  { NamedOperation(<<"/", "pets">>, "post", id, <<200>>) :
      id \in {Some("listPets"), Some("createPet")} }
  \cup { NamedOperation(<<"/", "a_b">>, "get", None, <<200>>) }
MainDocuments ==
  { OpenAPI(TRUE, <<>>, <<o>>) : o \in MainFirstOperations }
  \cup { OpenAPI(TRUE, <<>>, <<o1, o2>>) :
           o1 \in MainFirstOperations, o2 \in MainSecondOperations }

\* The regular files the output directory may hold at the start.
ExistingNames == {"listPets_200.hurl", "get__a_b_200.hurl", "notes.txt"}

\* All orders of a finite set (read_dir yields the entries in no fixed order).
Orders(set) ==
  { l \in [1..Cardinality(set) -> set] :
      \A i, j \in 1..Cardinality(set) : l[i] = l[j] => i = j }

MainInit ==
  /\ openapi \in MainDocuments
  /\ pc = "main"
  /\ op_i = 1
  /\ response_i = 1
  /\ query_parameters = <<>>
  /\ header_parameters = <<>>
  /\ request_body_parameter = None
  /\ request_body_parameter_tuple = None
  /\ new_asserts = None
  /\ outputs = <<>>
  /\ diagnostics = <<>>
  /\ args \in [output : {<<"out">>, <<"pets">>}, only_new : BOOLEAN]
  /\ files \in SUBSET {args.output \o <<f>> : f \in ExistingNames}
  /\ existing_files = <<>>
  /\ final_outputs = <<>>
  /\ write_i = 1
  /\ created = <<>>

\* r is the result of generate(openapi).
Generated(r) ==
  /\ outputs' = r.outputs
  /\ diagnostics' = r.diagnostics
  /\ final_outputs' = r.outputs
  /\ pc' = IF r.fault # "" THEN r.fault
           ELSE IF args.only_new THEN "read_dir" ELSE "write_outputs"

\* Lines 411-412: let result = generate(openapi); let mut final_outputs = ..
MainGenerate ==
  /\ pc = "main"
  /\ Generated(generate(openapi))
  /\ UNCHANGED <<openapi, args, files, existing_files, write_i, created>>
  /\ UNCHANGED generate_locals

\* The entries of the directory that are regular files.
RegularFilesIn(directory) ==
  {f \in files : Len(f) = Len(directory) + 1 /\ SubSeq(f, 1, Len(directory)) = directory}

\* Lines 413-430: the listing of the output directory, in any order, and the
\* filter.
ReadDir ==
  /\ pc = "read_dir"
  /\ \E listing \in Orders(RegularFilesIn(args.output)) :
       /\ existing_files' = listing
       /\ final_outputs' = filter_only_new_outputs(listing, final_outputs)
  /\ pc' = "write_outputs"
  /\ UNCHANGED <<openapi, outputs, diagnostics, args, files, write_i, created>>
  /\ UNCHANGED generate_locals

\* File::create(file_path)?: file is the file the path names; it is created or
\* truncated when its directory is there, and the error ends main otherwise.
FileCreated(file) ==
  IF SubSeq(file, 1, Len(file) - 1) \in Directories /\ file \notin Directories
  THEN /\ files' = files \cup {file}
       /\ created' = Append(created, file)
       /\ write_i' = write_i + 1
       /\ pc' = pc
  ELSE /\ pc' = "error"
       /\ UNCHANGED <<files, created, write_i>>

\* Lines 478-484: one turn of for output in outputs.iter().
WriteOutput ==
  /\ pc = "write_outputs"
  /\ write_i <= Len(final_outputs)
  /\ FileCreated(canonical(push(args.output, final_outputs[write_i].name), <<>>))
  /\ UNCHANGED <<openapi, outputs, diagnostics, args, existing_files, final_outputs>>
  /\ UNCHANGED generate_locals

\* Lines 486, 432-438: Ok(()).
Exit ==
  /\ pc = "write_outputs"
  /\ write_i > Len(final_outputs)
  /\ pc' = "exit"
  /\ UNCHANGED <<openapi, outputs, diagnostics>>
  /\ UNCHANGED main_vars
  /\ UNCHANGED generate_locals

MainNext == MainGenerate \/ ReadDir \/ WriteOutput \/ Exit

MainSpec == MainInit /\ [][MainNext]_vars

(***************************************************************************)
(* Properties.                                                             *)
(***************************************************************************)
\* What the caller of generate() holds once the run is over: the vectors of
\* the GenerateResult, or nothing when the process ended inside generate().
Terminated == pc = "done" \/ Aborted
Returned == IF pc = "done" THEN outputs ELSE <<>>

\* The state machine and the fold compute the same GenerateResult.
GenerateAgrees ==
  Terminated =>
    /\ generate(openapi).fault = (IF Aborted THEN pc ELSE "")
    /\ pc = "done" => /\ generate(openapi).outputs = outputs
                      /\ generate(openapi).diagnostics = diagnostics

\* The turn of the responses loop that has just run left an output record:
\* the assertion synthesizer was called and returned.
JustAsserted == pc = "responses" /\ is_some(new_asserts)
LastOutput == outputs[Len(outputs)]

\* An object schema all of whose properties are inline primitives.
ObjectOfPrimitives(schema) ==
  /\ schema.schema_kind = "Object"
  /\ ~schema.write_only
  /\ Len(schema.properties) > 0
  /\ \A i \in 1..Len(schema.properties) :
       /\ ~schema.properties[i].prop.is_ref
       /\ unwrap(schema.properties[i].prop.item).schema_kind \in PrimitiveKinds

IsType(kind) == "is" \o kind

\* The assertion the original statement of C1 expects for property i.
C1_PlainAssert(schema, i) ==
  (IF schema.properties[i].name \in schema.required THEN "" ELSE "#")
  \o "jsonpath \"$." \o schema.properties[i].name \o "\" "
  \o IsType(unwrap(schema.properties[i].prop.item).schema_kind)

\* The same with the bracket form for a name holding '@' or '$'.
C1_BracketAssert(schema, i) ==
  (IF schema.properties[i].name \in schema.required THEN "" ELSE "#")
  \o "jsonpath \"$['" \o schema.properties[i].name \o "']\" "
  \o IsType(unwrap(schema.properties[i].prop.item).schema_kind)

C1_Expected(schema) ==
  <<"jsonpath \"$\" isCollection">>
  \o Flatten([i \in 1..Len(schema.properties) |->
       IF unwrap(schema.properties[i].prop.item).write_only THEN <<>>
       ELSE IF schema.properties[i].name \in SpecialNames
       THEN <<C1_BracketAssert(schema, i)>>
       ELSE <<C1_PlainAssert(schema, i)>>])

\* C1 (as amended): for a concrete-status response whose resolved schema is an
\* object with primitive properties, the assertion list of the output record
\* is `jsonpath "$" isCollection` followed, for each property that is not
\* write-only, in declaration order, by one assertion `jsonpath "<path>"
\* is<Type>`, uncommented iff the name is in the required set and prefixed
\* with `#` otherwise, where <path> is `$.<name>`, or `$['<name>']` for a name
\* holding '@' or '$'.
C1_ObjectAssertions ==
  (JustAsserted /\ ObjectOfPrimitives(unwrap(new_asserts).schema)) =>
    LastOutput.asserts = C1_Expected(unwrap(new_asserts).schema)

\* The petstore object {required: [id], id: integer, name: string} has gone
\* through the assertion synthesizer and left its three assertions.
C1_Witness ==
  /\ JustAsserted
  /\ unwrap(new_asserts).schema =
       Obj(<<Prop("id", Item(Prim("Integer"))), Prop("name", Item(Prim("String")))>>, {"id"})
  /\ LastOutput.asserts = << "jsonpath \"$\" isCollection",
                             "jsonpath \"$.id\" isInteger",
                             "#jsonpath \"$.name\" isString" >>

\* C1 as stated: one assertion `jsonpath "$.<name>" is<Type>` for each
\* property, whatever its name and its write-only mark.
C1_Original ==
  (JustAsserted /\ ObjectOfPrimitives(unwrap(new_asserts).schema)) =>
    LastOutput.asserts =
      <<"jsonpath \"$\" isCollection">>
      \o [i \in 1..Len(unwrap(new_asserts).schema.properties) |->
            C1_PlainAssert(unwrap(new_asserts).schema, i)]

\* The schema a ReferenceOr<Schema> stands for in the document, if it resolves.
Target(doc, r) == resolve_schema(doc, r, NoContext).value

Count(seq, Test(_)) == Len(SelectSeq(seq, Test))

RECURSIVE without_write_only(_, _)
\* schema with every write-only node below it deleted: the property of an
\* object, the items of an array, the member of an allOf.
without_write_only(doc, schema) ==
  LET WO(r) == is_some(Target(doc, r)) /\ unwrap(Target(doc, r)).write_only
      Inner(r) == IF r.is_ref THEN r ELSE Item(without_write_only(doc, unwrap(r.item)))
      Kept(prop) == ~WO(prop.prop)
      KeptMember(r) == ~WO(r)
      kept == SelectSeq(schema.properties, Kept)
      members == SelectSeq(schema.all_of, KeptMember)
  IN [schema EXCEPT
        !.properties = [i \in 1..Len(kept) |-> Prop(kept[i].name, Inner(kept[i].prop))],
        !.items = IF is_some(schema.items) /\ ~WO(unwrap(schema.items))
                  THEN Some(Inner(unwrap(schema.items))) ELSE None,
        !.all_of = [i \in 1..Len(members) |-> Inner(members[i])]]

\* The document with the component schemas rewritten by F.
WithSchemas(doc, F(_)) ==
  [doc EXCEPT !.schemas = [n \in DOMAIN doc.schemas |->
     IF doc.schemas[n].is_ref THEN doc.schemas[n]
     ELSE Item(F(unwrap(doc.schemas[n].item)))]]

DocWithoutWriteOnly(doc) ==
  LET F(schema) == without_write_only(doc, schema) IN WithSchemas(doc, F)

\* The write-only inline primitive properties of an object leave no assertion
\* at their path, commented or not.
NoAssertOfWriteOnlyProperty(schema, asserts) ==
  \A i \in 1..Len(schema.properties) :
    (/\ ~schema.properties[i].prop.is_ref
     /\ unwrap(schema.properties[i].prop.item).write_only
     /\ unwrap(schema.properties[i].prop.item).schema_kind \in PrimitiveKinds
     /\ schema.properties[i].name \notin SpecialNames) =>
      \A prefix \in {"", "#"} :
        prefix \o "jsonpath \"$." \o schema.properties[i].name \o "\" "
          \o IsType(unwrap(schema.properties[i].prop.item).schema_kind)
        \notin Elems(asserts)

\* A schema has a write-only node below it, inline or behind a reference.
HasWriteOnlyNode(doc, schema) == without_write_only(doc, schema) # schema

\* C2: a schema node marked write-only (object property, array element, allOf
\* member, inline or reached through a reference) contributes no assertion
\* for itself or its descendants, and the assertions of the schema are those
\* generated when the write-only nodes are deleted from the document.
C2_WriteOnlyContributesNothing ==
  is_some(new_asserts) =>
    /\ generate_assert_from_schema(DocWithoutWriteOnly(openapi),
         without_write_only(openapi, unwrap(new_asserts).schema),
         RootPath, TRUE, NoContext, MaxDepth).asserts
       = unwrap(new_asserts).result.asserts
    /\ generate_assert_from_schema(DocWithoutWriteOnly(openapi),
         without_write_only(openapi, unwrap(new_asserts).schema),
         RootPath, TRUE, NoContext, MaxDepth).overflow
       = unwrap(new_asserts).result.overflow
    /\ NoAssertOfWriteOnlyProperty(unwrap(new_asserts).schema,
                                   unwrap(new_asserts).result.asserts)

\* An object with a required write-only property before a plain one has gone
\* through the assertion synthesizer, and the plain one was asserted.
C2_Witness ==
  /\ JustAsserted
  /\ unwrap(new_asserts).schema =
       Obj(<<Prop("id", Item(WriteOnly(Prim("Integer")))),
             Prop("name", Item(Prim("String")))>>, {"id", "name"})
  /\ unwrap(new_asserts).result.asserts =
       <<"jsonpath \"$\" isCollection", "jsonpath \"$.name\" isString">>

RECURSIVE without_read_only(_, _)
\* schema with every property deleted, at every depth of the inline schemas,
\* whose resolved schema is read-only.
without_read_only(doc, schema) ==
  LET RO(r) == is_some(Target(doc, r)) /\ unwrap(Target(doc, r)).read_only
      Inner(r) == IF r.is_ref THEN r ELSE Item(without_read_only(doc, unwrap(r.item)))
      Kept(prop) == ~RO(prop.prop)
      kept == SelectSeq(schema.properties, Kept)
  IN [schema EXCEPT
        !.properties = [i \in 1..Len(kept) |-> Prop(kept[i].name, Inner(kept[i].prop))],
        !.items = IF is_some(schema.items) THEN Some(Inner(unwrap(schema.items))) ELSE None,
        !.all_of = [i \in 1..Len(schema.all_of) |-> Inner(schema.all_of[i])]]

DocWithoutReadOnly(doc) ==
  LET F(schema) == without_read_only(doc, schema) IN WithSchemas(doc, F)

\* The keys of the object a body literal parses to (none when it is no object).
BodyKeys(body) ==
  IF is_some(from_str(body)) /\ is_object(unwrap(from_str(body)))
  THEN {unwrap(from_str(body)).fields[i].k : i \in 1..Len(unwrap(from_str(body)).fields)}
  ELSE {}

ReadOnlyNames(doc, schema) ==
  {schema.properties[i].name : i \in
     {j \in 1..Len(schema.properties) :
        /\ is_some(Target(doc, schema.properties[j].prop))
        /\ unwrap(Target(doc, schema.properties[j].prop)).read_only}}

\* C3: a property whose resolved schema is marked read-only is no key of the
\* generated request-body literal, and the body of the schema is the body
\* generated when the read-only properties are deleted from their objects.
C3_ReadOnlyNeverInBody ==
  is_some(request_body_parameter_tuple) =>
    /\ generate_request_body_from_schema(DocWithoutReadOnly(openapi),
         without_read_only(openapi, unwrap(request_body_parameter_tuple).schema),
         None, NoContext, RootPath, MaxDepth).body
       = unwrap(request_body_parameter_tuple).result.body
    /\ generate_request_body_from_schema(DocWithoutReadOnly(openapi),
         without_read_only(openapi, unwrap(request_body_parameter_tuple).schema),
         None, NoContext, RootPath, MaxDepth).fault
       = unwrap(request_body_parameter_tuple).result.fault
    /\ is_some(unwrap(request_body_parameter_tuple).result.body) =>
         BodyKeys(unwrap(unwrap(request_body_parameter_tuple).result.body))
           \cap ReadOnlyNames(openapi, unwrap(request_body_parameter_tuple).schema) = {}

\* An object with a plain property before a read-only one has gone through
\* the request-body synthesizer, and the plain one alone is in the literal.
C3_Witness ==
  /\ pc = "responses"
  /\ is_some(request_body_parameter_tuple)
  /\ unwrap(request_body_parameter_tuple).schema =
       Obj(<<Prop("id", Item(Prim("Integer"))),
             Prop("name", Item(ReadOnly(Prim("String"))))>>, {"id"})
  /\ request_body_parameter = Some("{\n  \"id\": 0\n}")

CountError(ds, error) == Cardinality({i \in 1..Len(ds) : ds[i].error = error})

\* An object whose one property refers back to it: directly, through a second
\* object of one property, or as the element of an array.
SelfReferential(doc, schema) ==
  /\ schema.schema_kind = "Object"
  /\ Len(schema.properties) = 1
  /\ is_some(Target(doc, schema.properties[1].prop))
  /\ LET t == unwrap(Target(doc, schema.properties[1].prop)) IN
       \/ t = schema
       \/ /\ t.schema_kind = "Object"
          /\ Len(t.properties) = 1
          /\ Target(doc, t.properties[1].prop) = Some(schema)
       \/ /\ t.schema_kind = "Array"
          /\ is_some(t.items)
          /\ Target(doc, unwrap(t.items)) = Some(schema)

\* C4: for an object with a property that refers back to the object's own
\* type, directly or through one intermediate schema, whatever the name of the
\* property, both synthesizers return, with exactly one cycle diagnostic.
C4_SelfReferenceOneDiagnostic ==
  /\ (is_some(new_asserts) /\ SelfReferential(openapi, unwrap(new_asserts).schema)) =>
       /\ ~unwrap(new_asserts).result.overflow
       /\ CountError(unwrap(new_asserts).result.diagnostics,
                     "ResponseBodySchemaCycleDetected") = 1
  /\ (is_some(request_body_parameter_tuple)
      /\ SelfReferential(openapi, unwrap(request_body_parameter_tuple).schema)) =>
       /\ unwrap(request_body_parameter_tuple).result.fault = ""
       /\ CountError(unwrap(request_body_parameter_tuple).result.diagnostics,
                     "RequestBodySchemaCycleDetected") = 1

\* C5: generate runs to completion: the recursion of the synthesizers never
\* uses up the stack, whatever the reference graph of the component schemas.
C5_RecursionBounded == pc # "overflow"

\* The records of outs that belong to operation o.
OutputsFor(outs, o) ==
  LET Mine(r) == r.path = output_path(o) /\ r.method = to_uppercase(o.method)
  IN SelectSeq(outs, Mine)

\* An operation at the place of o with nothing wrong in it.
Plain(o) ==
  Operation(o.path, o.method, o.operation_id, <<>>, None,
            <<Entry(Code(200), Item(Content(JsonContent(Item(Prim("String"))))))>>)

\* What the caller holds after generate() on doc.
ReturnedOutputs(doc) == IF generate(doc).fault # "" THEN <<>> ELSE generate(doc).outputs

\* C6: two documents with the same components that differ only in the content
\* of one operation give the same output records for every other operation.
C6_OtherOperationsUnaffected ==
  Terminated =>
    \A i \in 1..Len(openapi.operations) : \A j \in 1..Len(openapi.operations) :
      i # j =>
        OutputsFor(Returned, openapi.operations[j])
        = OutputsFor(ReturnedOutputs([openapi EXCEPT
                       !.operations[i] = Plain(openapi.operations[i])]),
                     openapi.operations[j])

\* schema without the properties whose schema does not resolve.
without_unresolved(doc, schema) ==
  LET Kept(prop) == is_some(Target(doc, prop.prop))
  IN [schema EXCEPT !.properties = SelectSeq(schema.properties, Kept)]

DocWithoutUnresolved(doc) ==
  LET F(schema) == without_unresolved(doc, schema) IN WithSchemas(doc, F)

HasUnresolvedProperty(doc, schema) ==
  /\ schema.schema_kind = "Object"
  /\ \E i \in 1..Len(schema.properties) : is_none(Target(doc, schema.properties[i].prop))

\* C7: when the schema of one property of an object fails to resolve, only
\* that property is abandoned: the assertions and the body of the object are
\* those of the object without that property.
C7_OnlyThePropertyAbandoned ==
  /\ (is_some(new_asserts) /\ HasUnresolvedProperty(openapi, unwrap(new_asserts).schema)) =>
       unwrap(new_asserts).result.asserts
       = generate_assert_from_schema(DocWithoutUnresolved(openapi),
           without_unresolved(openapi, unwrap(new_asserts).schema),
           RootPath, TRUE, NoContext, MaxDepth).asserts
  /\ (is_some(request_body_parameter_tuple)
      /\ HasUnresolvedProperty(openapi, unwrap(request_body_parameter_tuple).schema)) =>
       unwrap(request_body_parameter_tuple).result.body
       = generate_request_body_from_schema(DocWithoutUnresolved(openapi),
           without_unresolved(openapi, unwrap(request_body_parameter_tuple).schema),
           None, NoContext, RootPath, MaxDepth).body

\* The loop over the responses of the operation is through.
ResponsesDone == pc = "responses" /\ response_i > Len(operation.responses)

\* C8: for every concrete status-code entry of the responses of an operation,
\* generate emits exactly one output record with that status code.
C8_OneRecordPerStatusCode ==
  ResponsesDone =>
    \A k \in 1..Len(operation.responses) :
      ~operation.responses[k].status_code.is_range =>
        Cardinality({n \in 1..Len(outputs) :
          /\ outputs[n].expected_status_code = operation.responses[k].status_code.code
          /\ outputs[n].path = output_path(operation)
          /\ outputs[n].method = to_uppercase(operation.method)}) = 1

IsRange(entry) == entry.status_code.is_range
IsConcrete(entry) == ~entry.status_code.is_range

\* The document without the range entries of its responses.
without_ranges(doc) ==
  [doc EXCEPT !.operations = [i \in 1..Len(doc.operations) |->
     [doc.operations[i] EXCEPT !.responses = SelectSeq(doc.operations[i].responses,
                                                       IsConcrete)]]]

RECURSIVE Sum(_)
Sum(ns) == IF Len(ns) = 0 THEN 0 ELSE Head(ns) + Sum(Tail(ns))
RangeEntries(doc) ==
  Sum([i \in 1..Len(doc.operations) |-> Count(doc.operations[i].responses, IsRange)])

NotRangeDiagnostic(d) == d.error # "UnsupportedStatusCodeRange"

\* C9: a status-code range entry gives no output record and exactly one
\* UnsupportedStatusCodeRange diagnostic, and the run is otherwise the run on
\* the document without its range entries: same records, same other
\* diagnostics, same end.
C9_RangeEntries ==
  Terminated =>
    /\ generate(without_ranges(openapi)).fault = (IF Aborted THEN pc ELSE "")
    /\ pc = "done" =>
         /\ outputs = generate(without_ranges(openapi)).outputs
         /\ SelectSeq(diagnostics, NotRangeDiagnostic)
            = generate(without_ranges(openapi)).diagnostics
         /\ CountError(diagnostics, "UnsupportedStatusCodeRange") = RangeEntries(openapi)

\* A run over an operation with a 5XX entry after a 404 entry has returned:
\* one range diagnostic, and no record with a 5xx code.
C9_Witness ==
  /\ pc = "done"
  /\ RangeEntries(openapi) = 1
  /\ Len(outputs) > 0
  /\ CountError(diagnostics, "UnsupportedStatusCodeRange") = 1
  /\ \A n \in 1..Len(outputs) : outputs[n].expected_status_code < 500

\* A reference "#/components/schemas/<N>" whose <N> is no key of the schemas
\* of the components the document has.
MissingName(doc, r) ==
  /\ r.is_ref
  /\ doc.has_components
  /\ Len(r.reference) = 2
  /\ r.reference[1] = SchemasPrefix
  /\ r.reference[2] \notin DOMAIN doc.schemas
  /\ r.reference[2] \notin {SchemasPrefix, RequestBodiesPrefix, ResponsesPrefix,
                            ParametersPrefix}

MissingSchemaReference(context, r) ==
  [error |-> "MissingSchemaReference", operation |-> context.operation,
   path |-> context.path, reference |-> "#/components/schemas/" \o r.reference[2],
   jsonpath |-> "", kind |-> ""]

\* The schema of the application/json entry of a response or request body.
ContentSchema(content) ==
  IF is_some(content) /\ is_some(find_json_media_type(unwrap(content).content, 1))
  THEN unwrap(find_json_media_type(unwrap(content).content, 1)).schema
  ELSE None
EntrySchema(doc, entry) ==
  IF IsRange(entry) THEN None
  ELSE ContentSchema(resolve_response(doc, entry.response, NoContext).value)
BodySchema(doc, o) ==
  IF is_none(o.request_body) THEN None
  ELSE ContentSchema(resolve_request_body(doc, unwrap(o.request_body), NoContext).value)

\* A step that resolves the schema of a body or of a response to a missing name.
C10_Step ==
  /\ (/\ pc = "responses"
      /\ response_i <= Len(operation.responses)
      /\ is_some(EntrySchema(openapi, operation.responses[response_i]))
      /\ MissingName(openapi, unwrap(EntrySchema(openapi, operation.responses[response_i])))) =>
       /\ outputs' = outputs
       /\ new_asserts' = None
       /\ diagnostics' = Append(diagnostics, MissingSchemaReference(operation_context(operation),
            unwrap(EntrySchema(openapi, operation.responses[response_i]))))
  /\ (/\ pc = "request_body"
      /\ is_some(BodySchema(openapi, operation))
      /\ MissingName(openapi, unwrap(BodySchema(openapi, operation)))) =>
       /\ request_body_parameter' = None
       /\ request_body_parameter_tuple' = None
       /\ diagnostics' = Append(diagnostics, MissingSchemaReference(operation_context(operation),
            unwrap(BodySchema(openapi, operation))))

InlinePrimitive(r) == ~r.is_ref /\ unwrap(r.item).schema_kind \in PrimitiveKinds
                      /\ ~unwrap(r.item).write_only /\ ~unwrap(r.item).read_only

\* Schemas whose children are inline primitives or missing names, one at least
\* missing.
MissingBelow(doc, rs) ==
  /\ \A i \in 1..Len(rs) : InlinePrimitive(rs[i]) \/ MissingName(doc, rs[i])
  /\ \E i \in 1..Len(rs) : MissingName(doc, rs[i])
FirstMissing(doc, rs) ==
  CHOOSE i \in 1..Len(rs) : MissingName(doc, rs[i]) /\ \A j \in 1..(i - 1) : ~MissingName(doc, rs[j])
PropertySchemas(schema) == [i \in 1..Len(schema.properties) |-> schema.properties[i].prop]

\* What the synthesizers are to leave for such a schema: the diagnostics, one
\* for each name that was looked up, and the assertions of the rest.
C10_Diagnostics(doc, schema, context) ==
  CASE schema.schema_kind = "Object" ->
         <<MissingSchemaReference(context,
             PropertySchemas(schema)[FirstMissing(doc, PropertySchemas(schema))])>>
    [] schema.schema_kind = "Array" -> <<MissingSchemaReference(context, unwrap(schema.items))>>
    [] schema.schema_kind = "AllOf" ->
         LET Missing(r) == MissingName(doc, r)
             missing == SelectSeq(schema.all_of, Missing)
         IN [i \in 1..Len(missing) |-> MissingSchemaReference(context, missing[i])]
C10_Asserts(doc, schema) ==
  CASE schema.schema_kind = "Object" ->
         C1_Expected([schema EXCEPT !.properties =
           SubSeq(schema.properties, 1, FirstMissing(doc, PropertySchemas(schema)) - 1)])
    [] schema.schema_kind = "Array" -> <<"jsonpath \"$\" isCollection">>
    [] schema.schema_kind = "AllOf" ->
         LET Found(r) == ~MissingName(doc, r)
             found == SelectSeq(schema.all_of, Found)
         IN [i \in 1..Len(found) |->
               "jsonpath \"$\" " \o IsType(unwrap(found[i].item).schema_kind)]
C10_Case(doc, schema) ==
  /\ ~schema.write_only
  /\ ~schema.read_only
  /\ \/ schema.schema_kind = "Object" /\ MissingBelow(doc, PropertySchemas(schema))
     \/ schema.schema_kind = "Array" /\ is_some(schema.items)
        /\ MissingName(doc, unwrap(schema.items))
     \/ schema.schema_kind = "AllOf" /\ MissingBelow(doc, schema.all_of)

\* What resolve_schema returns for a missing name, and what the synthesizers
\* leave from a schema that holds one.
C10_State ==
  /\ \A r \in {SRef("Widget"), SRef("Nope")} :
       MissingName(openapi, r) =>
         resolve_schema(openapi, r, Context("listPets", "/pets"))
         = [value |-> None,
            diagnostics |-> <<MissingSchemaReference(Context("listPets", "/pets"), r)>>]
  /\ (JustAsserted /\ C10_Case(openapi, unwrap(new_asserts).schema)) =>
       /\ unwrap(new_asserts).result.asserts = C10_Asserts(openapi, unwrap(new_asserts).schema)
       /\ unwrap(new_asserts).result.diagnostics
          = C10_Diagnostics(openapi, unwrap(new_asserts).schema, operation_context(operation))
  /\ (/\ pc = "responses"
      /\ is_some(request_body_parameter_tuple)
      /\ C10_Case(openapi, unwrap(request_body_parameter_tuple).schema)
      /\ unwrap(request_body_parameter_tuple).result.fault = "") =>
       /\ unwrap(request_body_parameter_tuple).result.diagnostics
          = C10_Diagnostics(openapi, unwrap(request_body_parameter_tuple).schema,
                            operation_context(operation))
       /\ unwrap(request_body_parameter_tuple).schema.schema_kind \in {"Object", "Array"} =>
            is_none(unwrap(request_body_parameter_tuple).result.body)

\* C10: each resolution of a reference "#/components/schemas/<N>", where the
\* document has components and <N> is no key of their schemas, returns no
\* schema, adds no assertion and no body fragment for that schema, and emits
\* exactly one MissingSchemaReference diagnostic whose reference field is that
\* reference string.
C10_MissingSchemaReference == []C10_State /\ [][C10_Step]_vars

\* The turn for a 422 response whose schema is "#/components/schemas/Widget"
\* has run: no record with that code, and the diagnostic is the last one.
C10_Witness ==
  /\ pc = "responses"
  /\ response_i = 2
  /\ operation.responses[1].status_code = Code(422)
  /\ EntrySchema(openapi, operation.responses[1]) = Some(SRef("Widget"))
  /\ is_none(new_asserts)
  /\ \A n \in 1..Len(outputs) : outputs[n].expected_status_code # 422
  /\ Len(diagnostics) > 0
  /\ diagnostics[Len(diagnostics)].error = "MissingSchemaReference"
  /\ diagnostics[Len(diagnostics)].reference = "#/components/schemas/Widget"

\* The place of the first occurrence of x in s.
FirstIndex(s, x) == CHOOSE i \in 1..Len(s) : s[i] = x /\ \A j \in 1..(i - 1) : s[j] # x

NoTwoEqual(s) == \A i \in 1..Len(s) : \A j \in 1..Len(s) : i # j => s[i] # s[j]

\* C11: in every output record the asserts list holds no two equal strings,
\* and it is the list the assertion synthesizer returned with every repeated
\* string removed, the first occurrences keeping their relative order.
C11_AssertsDeduplicated ==
  /\ \A n \in 1..Len(outputs) : NoTwoEqual(outputs[n].asserts)
  /\ JustAsserted =>
       /\ Elems(LastOutput.asserts) = Elems(unwrap(new_asserts).result.asserts)
       /\ \A i \in 1..Len(LastOutput.asserts) : \A j \in 1..Len(LastOutput.asserts) :
            i < j => FirstIndex(unwrap(new_asserts).result.asserts, LastOutput.asserts[i])
                     < FirstIndex(unwrap(new_asserts).result.asserts, LastOutput.asserts[j])

\* A diamond: an allOf whose two members are the same object. The synthesizer
\* returned each assertion twice, the record holds each once.
C11_Witness ==
  /\ JustAsserted
  /\ unwrap(new_asserts).result.asserts =
       << "jsonpath \"$\" isCollection", "jsonpath \"$.x\" isBoolean",
          "jsonpath \"$.y\" isNumber",
          "jsonpath \"$\" isCollection", "jsonpath \"$.x\" isBoolean",
          "jsonpath \"$.y\" isNumber" >>
  /\ LastOutput.asserts =
       << "jsonpath \"$\" isCollection", "jsonpath \"$.x\" isBoolean",
          "jsonpath \"$.y\" isNumber" >>

\* An allOf whose members resolve to objects, not read-only themselves, with
\* inline primitive properties.
AllOfObjects(doc, schema) ==
  /\ schema.schema_kind = "AllOf"
  /\ ~schema.read_only
  /\ Len(schema.all_of) > 0
  /\ \A i \in 1..Len(schema.all_of) :
       /\ is_some(Target(doc, schema.all_of[i]))
       /\ unwrap(Target(doc, schema.all_of[i])).schema_kind = "Object"
       /\ ~unwrap(Target(doc, schema.all_of[i])).read_only
       /\ \A j \in 1..Len(unwrap(Target(doc, schema.all_of[i])).properties) :
            LET prop == unwrap(Target(doc, schema.all_of[i])).properties[j].prop
            IN ~prop.is_ref /\ unwrap(prop.item).schema_kind \in PrimitiveKinds

\* The places (member, property) of the properties that are not read-only.
BodyPlaces(doc, schema) ==
  UNION { { <<i, j>> : j \in
              { n \in 1..Len(unwrap(Target(doc, schema.all_of[i])).properties) :
                  ~unwrap(unwrap(Target(doc, schema.all_of[i])).properties[n].prop.item)
                     .read_only } } :
          i \in 1..Len(schema.all_of) }
PlaceProperty(doc, schema, pl) == unwrap(Target(doc, schema.all_of[pl[1]])).properties[pl[2]]
BodyNames(doc, schema) ==
  { PlaceProperty(doc, schema, pl).name : pl \in BodyPlaces(doc, schema) }

\* The JSON value of a primitive: 0, "", false.
DefaultValue(kind) ==
  CASE kind \in {"Integer", "Number"} -> VLiteral("number", "0")
    [] kind = "String" -> VString("")
    [] kind = "Boolean" -> VLiteral("bool", "false")

\* The value of key k: that of the last member, in allOf order, that has k.
LastValue(doc, schema, k) ==
  LET last == CHOOSE pl \in BodyPlaces(doc, schema) :
                /\ PlaceProperty(doc, schema, pl).name = k
                /\ \A other \in BodyPlaces(doc, schema) :
                     PlaceProperty(doc, schema, other).name = k => other[1] <= pl[1]
  IN DefaultValue(unwrap(PlaceProperty(doc, schema, last).prop.item).schema_kind)

\* The body is one JSON object with the keys names, each once, and the values
\* of the last members.
MergedObject(doc, schema, body, names) ==
  /\ is_some(body)
  /\ is_some(from_str(unwrap(body)))
  /\ is_object(unwrap(from_str(unwrap(body))))
  /\ LET fields == unwrap(from_str(unwrap(body))).fields IN
       /\ Len(fields) = Cardinality(names)
       /\ {fields[n].k : n \in 1..Len(fields)} = names
       /\ \A n \in 1..Len(fields) : fields[n].v = LastValue(doc, schema, fields[n].k)

BodySynthesized ==
  /\ pc = "responses"
  /\ is_some(request_body_parameter_tuple)
  /\ unwrap(request_body_parameter_tuple).result.fault = ""

\* C12 (as amended): for a request-body schema that is an allOf of object
\* schemas with primitive properties, if some member has a property that is not
\* read-only, the body is a single JSON object whose key set is the union of
\* the members' non-read-only property names, each key once, the value being
\* that of the last member in allOf order that defines the name; if no member
\* has such a property there is no body at all.
C12_AllOfMergedObject ==
  (BodySynthesized /\ AllOfObjects(openapi, unwrap(request_body_parameter_tuple).schema)) =>
    IF BodyNames(openapi, unwrap(request_body_parameter_tuple).schema) = {}
    THEN is_none(unwrap(request_body_parameter_tuple).result.body)
    ELSE MergedObject(openapi, unwrap(request_body_parameter_tuple).schema,
                      unwrap(request_body_parameter_tuple).result.body,
                      BodyNames(openapi, unwrap(request_body_parameter_tuple).schema))

\* allOf [{id: integer, name: string}, {id: string}] went through the body
\* synthesizer: one object, id from the second member.
C12_Witness ==
  /\ BodySynthesized
  /\ unwrap(request_body_parameter_tuple).schema =
       AllOf(<< Item(Obj(<<Prop("id", Item(Prim("Integer"))),
                           Prop("name", Item(Prim("String")))>>, {"id"})),
                Item(Obj(<<Prop("id", Item(Prim("String")))>>, {})) >>)
  /\ BodyKeys(unwrap(unwrap(request_body_parameter_tuple).result.body)) = {"id", "name"}
  /\ \E n \in 1..2 :
       unwrap(from_str(unwrap(unwrap(request_body_parameter_tuple).result.body))).fields[n]
       = [k |-> "id", v |-> VString("")]

\* C12 as stated: the body of an allOf of object schemas is always a single
\* JSON object whose key set is the union of the members' property names.
C12_Original ==
  (BodySynthesized /\ AllOfObjects(openapi, unwrap(request_body_parameter_tuple).schema)) =>
    MergedObject(openapi, unwrap(request_body_parameter_tuple).schema,
                 unwrap(request_body_parameter_tuple).result.body,
                 BodyNames(openapi, unwrap(request_body_parameter_tuple).schema))

(***************************************************************************)
(* C13: references that do not start with the prefix of their kind.        *)
(***************************************************************************)
\* The reference string starts with the prefix.
StartsWith(r, prefix) == Len(r.reference) > 0 /\ r.reference[1] = prefix

Malformed(error, context, r) ==
  Resolved(None, <<[error |-> error, operation |-> context.operation,
                    path |-> context.path, reference |-> Str(r.reference),
                    jsonpath |-> "", kind |-> ""]>>)

\* The references of operation o that the run resolves as a schema: the schema
\* of its request body and the schemas of its responses.
SchemaReferences(doc, o) ==
  Elems(BodySchema(doc, o))
  \cup {unwrap(EntrySchema(doc, o.responses[n])) :
          n \in {m \in 1..Len(o.responses) : is_some(EntrySchema(doc, o.responses[m]))}}

\* The parameters of o that are references not starting with the prefix.
MalformedParameters(o) ==
  {n \in 1..Len(o.parameters) :
     o.parameters[n].is_ref /\ ~StartsWith(o.parameters[n], ParametersPrefix)}

\* C13: a reference that does not start with the prefix of the expected
\* component kind resolves to none with the malformed-reference diagnostic of
\* that kind, wherever else the prefix occurs in it: so it is for the request
\* body, the responses and the schemas of the operation at hand, and each such
\* parameter of the first operation has left one MalformedParameterReference.
C13_MalformedReference ==
  pc \in {"request_body", "responses"} =>
    /\ \A r \in SchemaReferences(openapi, operation) :
         r.is_ref /\ ~StartsWith(r, SchemasPrefix) =>
           resolve_schema(openapi, r, operation_context(operation))
             = Malformed("MalformedSchemaReference", operation_context(operation), r)
    /\ \A n \in 1..Len(operation.responses) :
         LET r == operation.responses[n].response IN
           r.is_ref /\ ~StartsWith(r, ResponsesPrefix) =>
             resolve_response(openapi, r, operation_context(operation))
               = Malformed("MalformedResponseBodyReference",
                           operation_context(operation), r)
    /\ is_some(operation.request_body) =>
         LET r == unwrap(operation.request_body) IN
           r.is_ref /\ ~StartsWith(r, RequestBodiesPrefix) =>
             resolve_request_body(openapi, r, operation_context(operation))
               = Malformed("MalformedRequestBodyReference",
                           operation_context(operation), r)
    /\ op_i = 1 =>
         CountError(diagnostics, "MalformedParameterReference")
           = Cardinality(MalformedParameters(operation))

(***************************************************************************)
(* C14: chained references.                                                *)
(***************************************************************************)
\* The schema references the run can meet in operation o: those of its bodies
\* and the properties, items and allOf members of the component schemas.
SchemaReferencesBelow(doc, o) ==
  SchemaReferences(doc, o)
  \cup UNION {{unwrap(as_item(doc.schemas[k])).properties[n].prop :
                 n \in 1..Len(unwrap(as_item(doc.schemas[k])).properties)}
              \cup Elems(unwrap(as_item(doc.schemas[k])).items)
              \cup Elems(unwrap(as_item(doc.schemas[k])).all_of) :
              k \in {j \in DOMAIN doc.schemas : ~doc.schemas[j].is_ref}}

\* res is what a resolver returned for r, table being the component mapping of
\* its kind: a value is the inline r or the inline entry r names, with no
\* diagnostic; an entry that is itself a reference gives none and failed.
NotFollowed(doc, r, res, table, prefix, failed, context) ==
  /\ is_some(res.value) =>
       /\ res.diagnostics = <<>>
       /\ IF r.is_ref
          THEN /\ is_some(split_nth_1(r.reference, prefix))
               /\ unwrap(split_nth_1(r.reference, prefix)) \in DOMAIN table
               /\ table[unwrap(split_nth_1(r.reference, prefix))] = Item(unwrap(res.value))
          ELSE r = Item(unwrap(res.value))
  /\ ( /\ r.is_ref
       /\ doc.has_components
       /\ is_some(split_nth_1(r.reference, prefix))
       /\ unwrap(split_nth_1(r.reference, prefix)) \in DOMAIN table
       /\ table[unwrap(split_nth_1(r.reference, prefix))].is_ref )
     => /\ is_none(res.value)
        /\ Len(res.diagnostics) = 1
        /\ res.diagnostics[1].error = failed
        /\ res.diagnostics[1].reference = Str(r.reference)
        /\ res.diagnostics[1].operation = context.operation
        /\ res.diagnostics[1].path = context.path

\* C14: whenever resolve_schema, resolve_request_body or resolve_response
\* returns a value for a reference of the operation at hand, the value is the
\* inline definition itself or the inline entry the reference names (one
\* lookup), and when the named entry is itself a reference the resolver returns
\* none with the Failed...Dereference diagnostic of its kind.
C14_ChainedNeverFollowed ==
  pc \in {"request_body", "responses"} =>
    /\ \A r \in SchemaReferencesBelow(openapi, operation) :
         NotFollowed(openapi, r, resolve_schema(openapi, r, operation_context(operation)),
                     openapi.schemas, SchemasPrefix, "FailedSchemaDereference",
                     operation_context(operation))
    /\ \A n \in 1..Len(operation.responses) :
         NotFollowed(openapi, operation.responses[n].response,
                     resolve_response(openapi, operation.responses[n].response,
                                      operation_context(operation)),
                     openapi.responses, ResponsesPrefix, "FailedResponseBodyDereference",
                     operation_context(operation))
    /\ is_some(operation.request_body) =>
         NotFollowed(openapi, unwrap(operation.request_body),
                     resolve_request_body(openapi, unwrap(operation.request_body),
                                          operation_context(operation)),
                     openapi.request_bodies, RequestBodiesPrefix,
                     "FailedRequestBodyDereference", operation_context(operation))

\* The responses loop has just met a response that names an entry which is a
\* reference, and left the failed-dereference diagnostic and no record.
C14_Witness ==
  /\ pc = "responses"
  /\ response_i > 1
  /\ operation.responses[response_i - 1].response = Ref(<<ResponsesPrefix, "Chained">>)
  /\ openapi.has_components
  /\ Len(diagnostics) > 0
  /\ diagnostics[Len(diagnostics)].error = "FailedResponseBodyDereference"
  /\ is_none(new_asserts)

(***************************************************************************)
(* C15: the parameters of an operation.                                    *)
(***************************************************************************)
\* The parameter that p resolves to: p itself when inline, the inline entry of
\* the components that a reference "#/components/parameters/<name>" names.
ParameterTarget(doc, p) ==
  IF ~p.is_ref THEN p.item
  ELSE IF /\ doc.has_components
          /\ Len(p.reference) = 2
          /\ p.reference[1] = ParametersPrefix
          /\ p.reference[2] \in DOMAIN doc.parameters
       THEN as_item(doc.parameters[p.reference[2]])
       ELSE None

RECURSIVE NamesOfKind(_, _, _)
\* The names of the parameters that resolve to one of the kind, in the order
\* of declaration.
NamesOfKind(doc, parameters, kind) ==
  IF Len(parameters) = 0 THEN <<>>
  ELSE (IF /\ is_some(ParameterTarget(doc, Head(parameters)))
           /\ unwrap(ParameterTarget(doc, Head(parameters))).kind = kind
        THEN <<unwrap(ParameterTarget(doc, Head(parameters))).name>>
        ELSE <<>>) \o NamesOfKind(doc, Tail(parameters), kind)

\* C15: once the parameters of the first operation are through,
\* header_parameters and query_parameters hold, in declaration order, exactly
\* the names of its parameters that resolve to a Header respectively a Query
\* parameter, and every other parameter was skipped without a diagnostic.
C15_ParametersSilentlySkipped ==
  pc = "request_body" /\ op_i = 1 =>
    /\ query_parameters = NamesOfKind(openapi, operation.parameters, "Query")
    /\ header_parameters = NamesOfKind(openapi, operation.parameters, "Header")
    /\ diagnostics = <<>>

(***************************************************************************)
(* C16: the request body, once per operation.                              *)
(***************************************************************************)
\* The records of operation o among outs ((path, method) names an operation).
RecordsOf(outs, o) ==
  {n \in 1..Len(outs) : outs[n].path = output_path(o) /\ outs[n].method = to_uppercase(o.method)}

\* The document with the responses of every operation taken away.
without_responses(doc) ==
  [doc EXCEPT !.operations =
     [n \in 1..Len(doc.operations) |-> [doc.operations[n] EXCEPT !.responses = <<>>]]]

\* The diagnostics only the request-body block emits.
RequestBodyErrors ==
  {"MalformedRequestBodyReference", "MissingRequestBodyReference",
   "FailedRequestBodyDereference", "MissingApplicationJsonRequestBodyMediaType",
   "RequestBodySchemaCycleDetected"}

\* While the responses of an operation are processed, all its records carry
\* the parameters and the request body the operation was left with before the
\* first response, the empty string where no body was synthesized.
C16_RecordsCarryLocals ==
  pc = "responses" =>
    \A n \in RecordsOf(outputs, operation) :
      /\ outputs[n].request_body_parameter
           = (IF is_some(request_body_parameter) THEN unwrap(request_body_parameter)
              ELSE "")
      /\ outputs[n].header_parameters = header_parameters
      /\ outputs[n].query_parameters = query_parameters

\* C16: the request body is resolved and synthesized once per operation, before
\* any response: the records of one operation carry the identical
\* request_body_parameter, header_parameters and query_parameters (the empty
\* string when no body could be synthesized), and the request-body diagnostics
\* of a run are those of the same document without any status code.
C16_RequestBodyOncePerOperation ==
  /\ C16_RecordsCarryLocals
  /\ \A i, j \in 1..Len(outputs) :
       outputs[i].path = outputs[j].path /\ outputs[i].method = outputs[j].method =>
         /\ outputs[i].request_body_parameter = outputs[j].request_body_parameter
         /\ outputs[i].header_parameters = outputs[j].header_parameters
         /\ outputs[i].query_parameters = outputs[j].query_parameters
  /\ pc = "done" =>
       \A e \in RequestBodyErrors :
         CountError(diagnostics, e)
           = CountError(generate(without_responses(openapi)).diagnostics, e)

\* Two records of one operation with parameters and a synthesized body.
C16_Witness ==
  /\ pc = "responses"
  /\ Cardinality(RecordsOf(outputs, operation)) = 2
  /\ is_some(request_body_parameter)
  /\ Len(query_parameters) > 0
  /\ Len(header_parameters) > 0

\* A run with two status codes in one operation whose request body was
\* diagnosed and not synthesized.
C16_WitnessDiagnosed ==
  /\ pc = "done"
  /\ \E n \in 1..Len(openapi.operations) :
       /\ Cardinality(RecordsOf(outputs, openapi.operations[n])) = 2
       /\ \A m \in RecordsOf(outputs, openapi.operations[n]) :
            outputs[m].request_body_parameter = ""
  /\ \E e \in RequestBodyErrors : CountError(diagnostics, e) = 1

(***************************************************************************)
(* C17: --only-new.                                                        *)
(***************************************************************************)
RECURSIVE NotTrailing(_, _)
\* The outputs whose name is not the last component of any of the paths, in
\* their order.
NotTrailing(existing, outs) ==
  IF Len(outs) = 0 THEN <<>>
  ELSE (IF \E n \in 1..Len(existing) : existing[n][Len(existing[n])] = Head(outs).name
        THEN <<>> ELSE <<Head(outs)>>)
       \o NotTrailing(existing, Tail(outs))

\* The directory has been listed and the outputs filtered.
Filtered == args.only_new /\ pc \in {"write_outputs", "exit", "error"}

C17_FilterExact == Filtered => final_outputs = NotTrailing(existing_files, outputs)

C17_NoExistingFileCreated ==
  Filtered => \A n \in 1..Len(created) : created[n] \notin Elems(existing_files)

\* C17: filter_only_new_outputs returns, in their original order, exactly the
\* outputs whose name is not the trailing path component of any path in
\* existing_files; so with --only-new write_outputs never creates or truncates
\* a file that was a regular file of the output directory when it was listed.
C17_OnlyNewKeepsExistingFiles == C17_FilterExact /\ C17_NoExistingFileCreated

(***************************************************************************)
(* C18: the names of the output records.                                   *)
(***************************************************************************)
\* <operation id>, else <method>_<path with every '/' replaced by '_'>.
NameOf(o) ==
  IF o.operation_id # None THEN o.operation_id[1]
  ELSE o.method \o "_" \o Str([n \in 1..Len(o.path) |->
                                 IF o.path[n] = "/" THEN "_" ELSE o.path[n]])

\* Record n belongs to operation o and one of its status codes.
BelongsTo(n, o) ==
  /\ outputs[n].path = output_path(o)
  /\ outputs[n].method = to_uppercase(o.method)
  /\ \E m \in 1..Len(o.responses) :
       /\ ~o.responses[m].status_code.is_range
       /\ o.responses[m].status_code.code = outputs[n].expected_status_code
       /\ outputs[n].name
            = NameOf(o) \o "_" \o u16_to_string(outputs[n].expected_status_code) \o ".hurl"

C18_NameFormat ==
  \A n \in 1..Len(outputs) : \E k \in 1..Len(openapi.operations) :
    BelongsTo(n, openapi.operations[k])

C18_NamesDistinct ==
  \A i, j \in 1..Len(outputs) : i # j => outputs[i].name # outputs[j].name

\* C18: the name of each record is <operation name>_<code>.hurl, two records of
\* one generate call have different names, and so write_outputs never opens
\* the file of one record again for another.
C18_DistinctNames ==
  /\ C18_NameFormat
  /\ C18_NamesDistinct
  /\ \A i, j \in 1..Len(created) : i # j => created[i] # created[j]

(***************************************************************************)
(* C19: the shape and the order of the resolvers' answers.                 *)
(***************************************************************************)
\* The reference is the prefix and a name, or does not hold the prefix at all.
PlainReference(r, prefix) ==
  \/ Len(r.reference) = 2 /\ r.reference[1] = prefix /\ r.reference[2] # prefix
  \/ \A n \in 1..Len(r.reference) : r.reference[n] # prefix

\* The diagnostic the order of the checks gives for a plain reference r: "" if
\* none of them fails.
FirstFailure(doc, r, table, prefix, malformed, missing, failed) ==
  CASE r.reference[1] # prefix -> malformed
    [] r.reference[1] = prefix /\ ~doc.has_components -> "MissingComponents"
    [] r.reference[1] = prefix /\ doc.has_components
         /\ r.reference[2] \notin DOMAIN table -> missing
    [] r.reference[1] = prefix /\ doc.has_components
         /\ r.reference[2] \in DOMAIN table /\ table[r.reference[2]].is_ref -> failed
    [] OTHER -> ""

\* res is what a resolver returned for r.
OneAnswer(doc, r, res, table, prefix, malformed, missing, failed) ==
  /\ \/ is_some(res.value) /\ res.diagnostics = <<>>
     \/ is_none(res.value) /\ Len(res.diagnostics) = 1
  /\ ~r.is_ref => res.value = r.item /\ res.diagnostics = <<>>
  /\ r.is_ref /\ PlainReference(r, prefix) =>
       IF FirstFailure(doc, r, table, prefix, malformed, missing, failed) = ""
       THEN res.diagnostics = <<>>
       ELSE /\ Len(res.diagnostics) = 1
            /\ res.diagnostics[1].error
                 = FirstFailure(doc, r, table, prefix, malformed, missing, failed)

\* C19: every call of resolve_schema, resolve_request_body and resolve_response
\* on a reference of the operation at hand answers (a value, no diagnostic) or
\* (none, one diagnostic); an inline value comes back as it is; for a reference
\* the checks are malformed prefix, missing components, missing name, chained
\* reference, in this order.
C19_OneAnswerInOrder ==
  pc \in {"request_body", "responses"} =>
    /\ \A r \in SchemaReferencesBelow(openapi, operation) :
         OneAnswer(openapi, r, resolve_schema(openapi, r, operation_context(operation)),
                   openapi.schemas, SchemasPrefix, "MalformedSchemaReference",
                   "MissingSchemaReference", "FailedSchemaDereference")
    /\ \A n \in 1..Len(operation.responses) :
         OneAnswer(openapi, operation.responses[n].response,
                   resolve_response(openapi, operation.responses[n].response,
                                    operation_context(operation)),
                   openapi.responses, ResponsesPrefix, "MalformedResponseBodyReference",
                   "MissingResponseBodyReference", "FailedResponseBodyDereference")
    /\ is_some(operation.request_body) =>
         OneAnswer(openapi, unwrap(operation.request_body),
                   resolve_request_body(openapi, unwrap(operation.request_body),
                                        operation_context(operation)),
                   openapi.request_bodies, RequestBodiesPrefix,
                   "MalformedRequestBodyReference", "MissingRequestBodyReference",
                   "FailedRequestBodyDereference")

\* In a document without components the responses loop has just met a
\* reference that starts with the prefix, and left MissingComponents.
C19_Witness ==
  /\ pc = "responses"
  /\ response_i > 1
  /\ ~openapi.has_components
  /\ operation.responses[response_i - 1].response.is_ref
  /\ StartsWith(operation.responses[response_i - 1].response, ResponsesPrefix)
  /\ Len(diagnostics) > 0
  /\ diagnostics[Len(diagnostics)].error = "MissingComponents"

(***************************************************************************)
(* C20: required-ness along the path.                                      *)
(***************************************************************************)
Uncommented(jsonpath, default) == "jsonpath \"" \o PathStr(jsonpath) \o "\" " \o default
Commented(jsonpath, default) == "#" \o Uncommented(jsonpath, default)
Defaults == {"isCollection", "isBoolean", "isString", "isNumber", "isInteger"}

\* A schema the synthesizer asserts: where, in which context, with which
\* predicate, and the paths of the objects and arrays it lies in.
Node(jsonpath, required, default, above) ==
  [jsonpath |-> jsonpath, required |-> required, default |-> default, above |-> above]

RECURSIVE Nodes(_, _, _, _, _, _)
\* The schemas below r that are asserted when r is met at jsonpath in a context
\* that is required or not: the context of a property is required iff that of
\* its object is and the object requires the name; that of an array element is
\* not; an allOf member has the context of the allOf.
Nodes(doc, r, jsonpath, required, above, depth) ==
  IF depth = 0 \/ is_none(Target(doc, r)) THEN {}
  ELSE LET s == unwrap(Target(doc, r)) IN
    IF s.write_only THEN {}
    ELSE CASE s.schema_kind \in PrimitiveKinds ->
                {Node(jsonpath, required, PrimitiveAssert(s.schema_kind), above)}
           [] s.schema_kind = "Array" ->
                {Node(jsonpath, required, "isCollection", above)}
                \cup (IF is_none(s.items) THEN {}
                      ELSE Nodes(doc, unwrap(s.items), PathSuffix(jsonpath, "[0]"), FALSE,
                                 above \cup {jsonpath}, depth - 1))
           [] s.schema_kind = "Object" ->
                {Node(jsonpath, required, "isCollection", above)}
                \cup UNION { Nodes(doc, s.properties[n].prop,
                                   assert_inner_jsonpath(jsonpath, s.properties[n].name),
                                   required /\ s.properties[n].name \in s.required,
                                   above \cup {jsonpath}, depth - 1) :
                             n \in 1..Len(s.properties) }
           [] s.schema_kind = "AllOf" ->
                UNION { Nodes(doc, s.all_of[n], jsonpath, required, above, depth - 1) :
                        n \in 1..Len(s.all_of) }
           [] OTHER -> {}

\* The synthesizer has just returned from the schema of a response.
AssertsReturned == JustAsserted /\ ~unwrap(new_asserts).result.overflow
ReturnedAsserts == Elems(unwrap(new_asserts).result.asserts)
ReturnedNodes ==
  Nodes(openapi, Item(unwrap(new_asserts).schema), RootPath, TRUE, {}, MaxDepth)

\* The form an assertion at a node has.
FormOf(n, required) ==
  IF required THEN Uncommented(n.jsonpath, n.default) ELSE Commented(n.jsonpath, n.default)

\* An assertion is uncommented only for a schema whose context is required and
\* commented only for one whose context is not; in a run without diagnostics
\* every schema has its assertion.
C20_ConjunctionAlongPath ==
  AssertsReturned =>
    /\ \A n \in ReturnedNodes :
         FormOf(n, ~n.required) \in ReturnedAsserts =>
           \E m \in ReturnedNodes :
             m.jsonpath = n.jsonpath /\ m.default = n.default /\ m.required # n.required
    /\ unwrap(new_asserts).result.diagnostics = <<>> =>
         \A n \in ReturnedNodes : FormOf(n, n.required) \in ReturnedAsserts

\* No assertion at the root is commented out.
C20_RootUncommented ==
  AssertsReturned => \A d \in Defaults : Commented(RootPath, d) \notin ReturnedAsserts

\* C20: required-ness is the conjunction along the path (an assertion at
\* <path>.<name> is uncommented iff the context of the enclosing object is
\* required and the object requires <name>); hence an uncommented assertion
\* has an uncommented assertion at every path it extends, and no assertion at
\* the root is commented out.
C20_RequiredAlongPath ==
  /\ C20_ConjunctionAlongPath
  /\ C20_RootUncommented
  /\ AssertsReturned =>
       \A n \in ReturnedNodes : \A above \in n.above :
         (\E d \in Defaults : Uncommented(n.jsonpath, d) \in ReturnedAsserts) =>
           \E d \in Defaults : Uncommented(above, d) \in ReturnedAsserts

\* The statement as it was made: where an assertion at a path is commented out,
\* every assertion at a path that extends it is commented out too.
C20_Original ==
  /\ C20_ConjunctionAlongPath
  /\ C20_RootUncommented
  /\ AssertsReturned =>
       \A n \in ReturnedNodes : \A above \in n.above :
         (\E d \in Defaults : Commented(above, d) \in ReturnedAsserts) =>
           \A d \in Defaults : Uncommented(n.jsonpath, d) \notin ReturnedAsserts

\* An object in an object: the inner object requires a name, the outer one does
\* not require the inner, and the assertion of the name is commented out.
C20_Witness ==
  /\ AssertsReturned
  /\ \E n \in ReturnedNodes :
       /\ Cardinality(n.above) = 2
       /\ ~n.required
       /\ Commented(n.jsonpath, n.default) \in ReturnedAsserts
       /\ \E above \in n.above : Commented(above, "isCollection") \in ReturnedAsserts
       /\ Uncommented(RootPath, "isCollection") \in ReturnedAsserts
       /\ \E m \in ReturnedNodes :
            /\ m.required
            /\ Cardinality(m.above) = 1
            /\ Uncommented(m.jsonpath, m.default) \in ReturnedAsserts

(***************************************************************************)
(* C21: arrays.                                                            *)
(***************************************************************************)
RECURSIVE Arrays(_, _, _, _, _)
\* The array schemas below r that are asserted when r is met at jsonpath: where,
\* in which context, and with which items.
Arrays(doc, r, jsonpath, required, depth) ==
  IF depth = 0 \/ is_none(Target(doc, r)) THEN {}
  ELSE LET s == unwrap(Target(doc, r)) IN
    IF s.write_only THEN {}
    ELSE CASE s.schema_kind = "Array" ->
                {[jsonpath |-> jsonpath, required |-> required, items |-> s.items]}
                \cup (IF is_none(s.items) THEN {}
                      ELSE Arrays(doc, unwrap(s.items), PathSuffix(jsonpath, "[0]"), FALSE,
                                  depth - 1))
           [] s.schema_kind = "Object" ->
                UNION { Arrays(doc, s.properties[n].prop,
                               assert_inner_jsonpath(jsonpath, s.properties[n].name),
                               required /\ s.properties[n].name \in s.required, depth - 1) :
                        n \in 1..Len(s.properties) }
           [] s.schema_kind = "AllOf" ->
                UNION { Arrays(doc, s.all_of[n], jsonpath, required, depth - 1) :
                        n \in 1..Len(s.all_of) }
           [] OTHER -> {}

ReturnedArrays ==
  Arrays(openapi, Item(unwrap(new_asserts).schema), RootPath, TRUE, MaxDepth)

\* The schemas of the element of array a, all taken as required.
ElementNodes(a) ==
  IF is_none(a.items) THEN {}
  ELSE Nodes(openapi, unwrap(a.items), PathSuffix(a.jsonpath, "[0]"), TRUE, {}, MaxDepth)

\* C21: an array is asserted by one isCollection at its path in the state
\* passed in; its element is asserted at <path>[0] as not required, so that no
\* assertion whose path holds [0] is uncommented, whatever the array and the
\* element require; an array without items yields the isCollection alone.
C21_ArrayElementsOptional ==
  AssertsReturned =>
    /\ \A a \in ReturnedArrays :
         /\ \A n \in ElementNodes(a) : \A d \in Defaults :
              Uncommented(n.jsonpath, d) \notin ReturnedAsserts
         /\ unwrap(new_asserts).result.diagnostics = <<>> =>
              /\ (IF a.required THEN Uncommented(a.jsonpath, "isCollection")
                  ELSE Commented(a.jsonpath, "isCollection")) \in ReturnedAsserts
              /\ \A n \in ElementNodes(a) :
                   Commented(n.jsonpath, n.default) \in ReturnedAsserts
    /\ ( /\ unwrap(new_asserts).schema.schema_kind = "Array"
         /\ ~unwrap(new_asserts).schema.write_only
         /\ is_none(unwrap(new_asserts).schema.items) )
       => /\ unwrap(new_asserts).result.asserts = <<Uncommented(RootPath, "isCollection")>>
          /\ unwrap(new_asserts).result.diagnostics = <<>>

\* The response is an array of objects that require id, itself required: the
\* assertion of id in the element is commented out.
C21_Witness ==
  /\ AssertsReturned
  /\ unwrap(new_asserts).schema.schema_kind = "Array"
  /\ Uncommented(RootPath, "isCollection") \in ReturnedAsserts
  /\ \E a \in ReturnedArrays : \E n \in ElementNodes(a) :
       /\ n.required
       /\ Cardinality(n.above) = 1
       /\ a.jsonpath = RootPath
       /\ Commented(n.jsonpath, n.default) \in ReturnedAsserts

(***************************************************************************)
(* C22: allOf in the assertion synthesizer.                                *)
(***************************************************************************)
\* What member m of an allOf at jsonpath gives: its resolver diagnostic and no
\* assertion when it does not resolve, else what the synthesizer returns for
\* it at the same path in the same context.
MemberAsserted(doc, m, jsonpath, is_required, context, depth) ==
  LET r == resolve_schema(doc, m, context) IN
    IF is_none(r.value) THEN Asserted(<<>>, r.diagnostics)
    ELSE LET c == generate_assert_from_schema(doc, unwrap(r.value), jsonpath, is_required,
                                              context, depth)
         IN Asserted(c.asserts, r.diagnostics \o c.diagnostics)

RECURSIVE MembersAsserted(_, _, _, _, _, _)
\* The members in their order, one after the other.
MembersAsserted(doc, all_of, jsonpath, is_required, context, depth) ==
  IF Len(all_of) = 0 THEN Asserted(<<>>, <<>>)
  ELSE LET h == MemberAsserted(doc, Head(all_of), jsonpath, is_required, context, depth)
           t == MembersAsserted(doc, Tail(all_of), jsonpath, is_required, context, depth)
       IN Asserted(h.asserts \o t.asserts, h.diagnostics \o t.diagnostics)

\* The schema of the response is an allOf.
AllOfReturned ==
  /\ AssertsReturned
  /\ unwrap(new_asserts).schema.schema_kind = "AllOf"
  /\ ~unwrap(new_asserts).schema.write_only

\* The schema of the response is an array whose items are an allOf.
ArrayOfAllOf(s) ==
  /\ s.schema_kind = "Array"
  /\ ~s.write_only
  /\ is_some(s.items)
  /\ is_some(Target(openapi, unwrap(s.items)))
  /\ unwrap(Target(openapi, unwrap(s.items))).schema_kind = "AllOf"
  /\ ~unwrap(Target(openapi, unwrap(s.items))).write_only

\* C22: for an allOf at a JSON path the synthesizer returns the concatenation,
\* in member order, of what each resolvable member gives at the same path with
\* the same is_required; a member that does not resolve gives its resolver
\* diagnostic and no assertion, and the members after it are still processed.
\* Checked for the allOf at $ (required) and at $[0] (not required).
C22_AllOfConcatenation ==
  /\ AllOfReturned =>
       /\ unwrap(new_asserts).result.asserts
            = MembersAsserted(openapi, unwrap(new_asserts).schema.all_of, RootPath, TRUE,
                              operation_context(operation), MaxDepth - 1).asserts
       /\ unwrap(new_asserts).result.diagnostics
            = MembersAsserted(openapi, unwrap(new_asserts).schema.all_of, RootPath, TRUE,
                              operation_context(operation), MaxDepth - 1).diagnostics
  /\ AssertsReturned /\ ArrayOfAllOf(unwrap(new_asserts).schema) =>
       /\ unwrap(new_asserts).result.asserts
            = <<Uncommented(RootPath, "isCollection")>>
              \o MembersAsserted(openapi,
                   unwrap(Target(openapi, unwrap(unwrap(new_asserts).schema.items))).all_of,
                   PathSuffix(RootPath, "[0]"), FALSE,
                   operation_context(operation), MaxDepth - 2).asserts
       /\ unwrap(new_asserts).result.diagnostics
            = MembersAsserted(openapi,
                unwrap(Target(openapi, unwrap(unwrap(new_asserts).schema.items))).all_of,
                PathSuffix(RootPath, "[0]"), FALSE,
                operation_context(operation), MaxDepth - 2).diagnostics

\* An allOf of two members at $: the first does not resolve, the second is
\* asserted at $.
C22_Witness ==
  /\ AllOfReturned
  /\ Len(unwrap(new_asserts).schema.all_of) = 2
  /\ is_none(Target(openapi, unwrap(new_asserts).schema.all_of[1]))
  /\ Len(unwrap(new_asserts).result.diagnostics) = 1
  /\ unwrap(new_asserts).result.asserts = <<Uncommented(RootPath, "isInteger")>>

(***************************************************************************)
(* C23: oneOf, anyOf, not and untyped schemas.                             *)
(***************************************************************************)
RECURSIVE without_unsupported(_, _)
\* schema with every node of an unsupported kind below it deleted: the
\* property of an object, the items of an array, the member of an allOf.
without_unsupported(doc, schema) ==
  LET Un(r) == is_some(Target(doc, r)) /\ unwrap(Target(doc, r)).schema_kind \in UnsupportedKinds
      Inner(r) == IF r.is_ref THEN r ELSE Item(without_unsupported(doc, unwrap(r.item)))
      Kept(prop) == ~Un(prop.prop)
      KeptMember(r) == ~Un(r)
      kept == SelectSeq(schema.properties, Kept)
      members == SelectSeq(schema.all_of, KeptMember)
  IN [schema EXCEPT
        !.properties = [i \in 1..Len(kept) |-> Prop(kept[i].name, Inner(kept[i].prop))],
        !.items = IF is_some(schema.items) /\ ~Un(unwrap(schema.items))
                  THEN Some(Inner(unwrap(schema.items))) ELSE None,
        !.all_of = [i \in 1..Len(members) |-> Inner(members[i])]]

DocWithoutUnsupported(doc) ==
  LET F(schema) == without_unsupported(doc, schema) IN WithSchemas(doc, F)

RECURSIVE UnsupportedVisited(_, _, _, _)
\* The kinds of the unsupported schemas a synthesizer meets below r, in the
\* order of its traversal; by: "assert" passes over write-only schemas,
\* "body" over read-only ones.
UnsupportedVisited(doc, r, by, depth) ==
  IF depth = 0 \/ is_none(Target(doc, r)) THEN <<>>
  ELSE LET s == unwrap(Target(doc, r)) IN
    IF (by = "assert" /\ s.write_only) \/ (by = "body" /\ s.read_only) THEN <<>>
    ELSE CASE s.schema_kind \in UnsupportedKinds -> <<s.schema_kind>>
           [] s.schema_kind = "Array" ->
                IF is_none(s.items) THEN <<>>
                ELSE UnsupportedVisited(doc, unwrap(s.items), by, depth - 1)
           [] s.schema_kind = "Object" ->
                Flatten([n \in 1..Len(s.properties) |->
                           UnsupportedVisited(doc, s.properties[n].prop, by, depth - 1)])
           [] s.schema_kind = "AllOf" ->
                Flatten([n \in 1..Len(s.all_of) |->
                           UnsupportedVisited(doc, s.all_of[n], by, depth - 1)])
           [] OTHER -> <<>>

\* The diagnostics are all UnsupportedSchemaKind: nothing else went wrong.
OnlyUnsupported(ds) == \A n \in 1..Len(ds) : ds[n].error = "UnsupportedSchemaKind"
KindsOf(ds) == [n \in 1..Len(ds) |-> ds[n].kind]

\* What one synthesizer returned for schema: a run in which nothing else went
\* wrong has one UnsupportedSchemaKind per unsupported schema met, naming its
\* kind, in the order of the traversal.
OnePerVisit(schema, ds, by) ==
  OnlyUnsupported(ds) => KindsOf(ds) = UnsupportedVisited(openapi, Item(schema), by, MaxDepth)

\* C23: a schema of kind oneOf, anyOf, not or untyped makes each synthesizer
\* that meets it emit one UnsupportedSchemaKind naming the kind and gives no
\* assertion and no body fragment, while the rest (the sibling properties of
\* its object among it) is synthesized as if the schema were not there.
C23_UnsupportedKindOnly ==
  /\ AssertsReturned =>
       /\ OnePerVisit(unwrap(new_asserts).schema, unwrap(new_asserts).result.diagnostics,
                      "assert")
       /\ unwrap(new_asserts).result.asserts
            = generate_assert_from_schema(DocWithoutUnsupported(openapi),
                without_unsupported(openapi, unwrap(new_asserts).schema),
                RootPath, TRUE, NoContext, MaxDepth).asserts
       /\ unwrap(new_asserts).schema.schema_kind \in UnsupportedKinds =>
            unwrap(new_asserts).result.asserts = <<>>
  /\ (is_some(request_body_parameter_tuple)
      /\ unwrap(request_body_parameter_tuple).result.fault = "") =>
       /\ OnePerVisit(unwrap(request_body_parameter_tuple).schema,
                      unwrap(request_body_parameter_tuple).result.diagnostics, "body")
       /\ unwrap(request_body_parameter_tuple).schema.schema_kind \notin UnsupportedKinds =>
            unwrap(request_body_parameter_tuple).result.body
              = generate_request_body_from_schema(DocWithoutUnsupported(openapi),
                  without_unsupported(openapi, unwrap(request_body_parameter_tuple).schema),
                  None, NoContext, RootPath, MaxDepth).body
       /\ unwrap(request_body_parameter_tuple).schema.schema_kind \in UnsupportedKinds =>
            is_none(unwrap(request_body_parameter_tuple).result.body)

\* An object {id, u, name} with u of kind not: both synthesizers have left one
\* diagnostic of kind Not and id and name are there.
C23_Witness ==
  /\ AssertsReturned
  /\ is_some(request_body_parameter_tuple)
  /\ KindsOf(unwrap(new_asserts).result.diagnostics) = <<"Not">>
  /\ KindsOf(unwrap(request_body_parameter_tuple).result.diagnostics) = <<"Not">>
  /\ unwrap(new_asserts).result.asserts
       = <<Uncommented(RootPath, "isCollection"), Uncommented(<<"$", "id">>, "isInteger"),
           Uncommented(<<"$", "name">>, "isString")>>
  /\ is_some(unwrap(request_body_parameter_tuple).result.body)
  /\ BodyKeys(unwrap(unwrap(request_body_parameter_tuple).result.body)) = {"id", "name"}

(***************************************************************************)
(* C24: what the cycle guard leaves of the rest.                           *)
(***************************************************************************)
RECURSIVE Unrolled(_, _, _, _, _)
\* The schema below r written out without references, as the synthesizer
\* `by` ("assert" or "body") walks it from jsonpath, and without the branches
\* at whose path the cycle guard fires: such a property is absent from its
\* object, such items from their array.  A reference that does not resolve
\* stays as it is.
Unrolled(doc, r, jsonpath, by, depth) ==
  IF depth = 0 \/ is_none(Target(doc, r)) THEN r
  ELSE LET s == unwrap(Target(doc, r))
           ChildPath(name) == IF by = "assert" THEN assert_inner_jsonpath(jsonpath, name)
                              ELSE PathDot(jsonpath, name)
           ElementPath == PathSuffix(jsonpath, IF by = "assert" THEN "[0]" ELSE "[]")
           Cut(c, path) == is_some(Target(doc, c)) /\ cycle_detected(path)
           Kept(prop) == ~Cut(prop.prop, ChildPath(prop.name))
           kept == SelectSeq(s.properties, Kept)
       IN Item([s EXCEPT
            !.properties = [i \in 1..Len(kept) |->
               Prop(kept[i].name,
                    Unrolled(doc, kept[i].prop, ChildPath(kept[i].name), by, depth - 1))],
            !.items = IF is_some(s.items) /\ ~Cut(unwrap(s.items), ElementPath)
                      THEN Some(Unrolled(doc, unwrap(s.items), ElementPath, by, depth - 1))
                      ELSE None,
            !.all_of = [i \in 1..Len(s.all_of) |->
               Unrolled(doc, s.all_of[i], jsonpath, by, depth - 1)]])

IsCycle(d) == d.error \in {"ResponseBodySchemaCycleDetected", "RequestBodySchemaCycleDetected"}
NotCycle(d) == ~IsCycle(d)
CycleCut(ds) == \E n \in 1..Len(ds) : IsCycle(ds[n])

\* The record of the response at hand is the last of the outputs and holds
\* the assertions that were returned, each once.
RecordProduced ==
  /\ Len(outputs) > 0
  /\ LastOutput.expected_status_code = operation.responses[response_i - 1].status_code.code
  /\ LastOutput.asserts = unique(unwrap(new_asserts).result.asserts)

\* C24: when the cycle guard fires at a path, the synthesizer returns nothing
\* for that branch only: the assertions and the body fragment are those of
\* the schema with the branch absent (the property from its object), the
\* other diagnostics are the same too, and the record of the status code is
\* produced.
C24_CycleCutsBranchOnly ==
  /\ (AssertsReturned /\ CycleCut(unwrap(new_asserts).result.diagnostics)) =>
       /\ unwrap(new_asserts).result.asserts
            = generate_assert_from_schema(openapi,
                unwrap(Unrolled(openapi, Item(unwrap(new_asserts).schema), RootPath,
                                "assert", MaxDepth).item),
                RootPath, TRUE, operation_context(operation), MaxDepth).asserts
       /\ SelectSeq(unwrap(new_asserts).result.diagnostics, NotCycle)
            = generate_assert_from_schema(openapi,
                unwrap(Unrolled(openapi, Item(unwrap(new_asserts).schema), RootPath,
                                "assert", MaxDepth).item),
                RootPath, TRUE, operation_context(operation), MaxDepth).diagnostics
       /\ RecordProduced
  /\ (/\ pc = "responses"
      /\ is_some(request_body_parameter_tuple)
      /\ unwrap(request_body_parameter_tuple).result.fault = ""
      /\ CycleCut(unwrap(request_body_parameter_tuple).result.diagnostics)) =>
       /\ unwrap(request_body_parameter_tuple).result.body
            = generate_request_body_from_schema(openapi,
                unwrap(Unrolled(openapi, Item(unwrap(request_body_parameter_tuple).schema),
                                RootPath, "body", MaxDepth).item),
                None, operation_context(operation), RootPath, MaxDepth).body
       /\ SelectSeq(unwrap(request_body_parameter_tuple).result.diagnostics, NotCycle)
            = generate_request_body_from_schema(openapi,
                unwrap(Unrolled(openapi, Item(unwrap(request_body_parameter_tuple).schema),
                                RootPath, "body", MaxDepth).item),
                None, operation_context(operation), RootPath, MaxDepth).diagnostics

\* A = {id: A, name: string} as the schema of the response: the guard has cut
\* $.id.id, and $.id.name and $.name, declared after the cyclic property, are
\* asserted.
C24_Witness ==
  /\ AssertsReturned
  /\ CountError(unwrap(new_asserts).result.diagnostics, "ResponseBodySchemaCycleDetected") = 1
  /\ unwrap(new_asserts).result.diagnostics[1].jsonpath = "$.id.id"
  /\ Commented(<<"$", "id", "name">>, "isString") \in ReturnedAsserts
  /\ Commented(<<"$", "name">>, "isString") \in ReturnedAsserts
  /\ RecordProduced

(***************************************************************************)
(* C25: the diagnostics sink.                                              *)
(***************************************************************************)
\* The last n of seq.
Suffix(seq, n) == SubSeq(seq, Len(seq) - n + 1, Len(seq))

\* The properties a synthesizer gets to: all up to the first whose reference
\* does not resolve, that one included.
Visited(doc, properties) ==
  LET unresolved == {i \in 1..Len(properties) : is_none(Target(doc, properties[i].prop))}
  IN IF unresolved = {} THEN properties
     ELSE SubSeq(properties, 1, CHOOSE i \in unresolved : \A j \in unresolved : i <= j)

RECURSIVE DepthFirst(_, _, _, _, _, _, _)
\* The diagnostics of the traversal of the schema r refers to, depth first
\* and children in declaration order: what the resolver returns for r, then
\* what the node itself raises, then its children.  by is "assert" or "body",
\* name the property name the body synthesizer is given.
DepthFirst(doc, r, name, jsonpath, by, context, depth) ==
  LET res == resolve_schema(doc, r, context) IN
  IF depth = 0 \/ is_none(res.value) THEN res.diagnostics
  ELSE LET s == unwrap(res.value) IN
    res.diagnostics \o
    (IF (by = "assert" /\ s.write_only) \/ (by = "body" /\ s.read_only) THEN <<>>
     ELSE IF cycle_detected(jsonpath)
     THEN <<Diag(IF by = "assert" THEN "ResponseBodySchemaCycleDetected"
                 ELSE "RequestBodySchemaCycleDetected", context, "", PathStr(jsonpath), "")>>
     ELSE CASE s.schema_kind \in UnsupportedKinds ->
                 <<Diag("UnsupportedSchemaKind", context, "",
                        IF by = "assert" THEN PathStr(jsonpath)
                        ELSE unsupported_body_jsonpath(name, jsonpath), s.schema_kind)>>
            [] s.schema_kind = "AllOf" ->
                 Flatten([n \in 1..Len(s.all_of) |->
                   DepthFirst(doc, s.all_of[n], None, jsonpath, by, context, depth - 1)])
            [] s.schema_kind = "Array" ->
                 IF is_none(s.items) THEN <<>>
                 ELSE DepthFirst(doc, unwrap(s.items), None,
                        PathSuffix(jsonpath, IF by = "assert" THEN "[0]" ELSE "[]"),
                        by, context, depth - 1)
            [] s.schema_kind = "Object" ->
                 Flatten([n \in 1..Len(Visited(doc, s.properties)) |->
                   DepthFirst(doc, s.properties[n].prop, Some(s.properties[n].name),
                     IF by = "assert" THEN assert_inner_jsonpath(jsonpath, s.properties[n].name)
                     ELSE PathDot(jsonpath, s.properties[n].name),
                     by, context, depth - 1)])
            [] OTHER -> <<>>)

\* What the three blocks of the loop body append for an operation.
ParameterDiagnostics(doc, o) ==
  generate_parameters(doc, o, 1, Params(<<>>, <<>>, <<>>)).diagnostics
RequestBodyDiagnostics(doc, o) == generate_request_body(doc, o).diagnostics
ResponseDiagnostics(doc, o, k) ==
  generate_response(doc, o, o.responses[k], Locals(<<>>, <<>>, None)).diagnostics

\* Processing order: the operations in document order; per operation the
\* parameters, the request body, the responses in their order.
ProcessingOrder(doc) ==
  Flatten([i \in 1..Len(doc.operations) |->
    ParameterDiagnostics(doc, doc.operations[i])
    \o RequestBodyDiagnostics(doc, doc.operations[i])
    \o Flatten([k \in 1..Len(doc.operations[i].responses) |->
                  ResponseDiagnostics(doc, doc.operations[i], k)])])

\* A step leaves the diagnostics collected so far as a prefix of the list.
PrefixKept ==
  /\ Len(diagnostics') >= Len(diagnostics)
  /\ SubSeq(diagnostics', 1, Len(diagnostics)) = diagnostics

\* What a synthesizer returned is the end of the list right after its call,
\* in depth-first order; what generate returns is in processing order.
C25_State ==
  /\ AssertsReturned =>
       /\ unwrap(new_asserts).result.diagnostics
            = DepthFirst(openapi, Item(unwrap(new_asserts).schema), None, RootPath, "assert",
                         operation_context(operation), MaxDepth)
       /\ Len(diagnostics) >= Len(unwrap(new_asserts).result.diagnostics)
       /\ Suffix(diagnostics, Len(unwrap(new_asserts).result.diagnostics))
            = unwrap(new_asserts).result.diagnostics
  /\ (/\ pc = "responses"
      /\ is_some(request_body_parameter_tuple)
      /\ unwrap(request_body_parameter_tuple).result.fault = "") =>
       /\ unwrap(request_body_parameter_tuple).result.diagnostics
            = DepthFirst(openapi, Item(unwrap(request_body_parameter_tuple).schema), None,
                         RootPath, "body", operation_context(operation), MaxDepth)
       /\ response_i = 1 =>
            /\ Len(diagnostics) >= Len(unwrap(request_body_parameter_tuple).result.diagnostics)
            /\ Suffix(diagnostics, Len(unwrap(request_body_parameter_tuple).result.diagnostics))
                 = unwrap(request_body_parameter_tuple).result.diagnostics
  /\ pc = "done" => diagnostics = ProcessingOrder(openapi)

\* C25: the diagnostics are append-only: every step of generate leaves those
\* collected so far an unchanged prefix, what a resolver or synthesizer call
\* returned is appended (none dropped), each synthesizer's in depth-first
\* order, and the list returned is in processing order: operations in
\* document order, per operation parameters, request body, responses.
C25_DiagnosticsAppendOnly == [][PrefixKept]_vars /\ []C25_State

ErrorsOf(ds) == [n \in 1..Len(ds) |-> ds[n].error]

\* generate has returned for one operation whose parameters, request body and
\* two responses were each diagnosed: the diagnostics are in that order.
C25_Witness ==
  /\ pc = "done"
  /\ Len(openapi.operations) = 1
  /\ ErrorsOf(diagnostics)
       = <<"MissingParameterReference", "MalformedParameterReference",
           "MissingSchemaDefinitionForMediaType",
           "MissingApplicationJsonResponseBodyMediaType", "UnsupportedStatusCodeRange">>

(***************************************************************************)
(* C26: the fragments of unnamed schemas and their re-parse.               *)
(***************************************************************************)
\* The fragment generate_request_body_from_schema returned to generate.
ReturnedFragment ==
  /\ is_some(request_body_parameter_tuple)
  /\ unwrap(request_body_parameter_tuple).result.fault = ""
  /\ is_some(unwrap(request_body_parameter_tuple).result.body)

\* C26: every fragment generate_request_body_from_schema returns for an
\* unnamed schema parses as a JSON value: the re-parse in generate and the
\* re-parse of an allOf member never panic.
C26_UnnamedFragmentsParse ==
  /\ pc # "unwrap"
  /\ ReturnedFragment =>
       is_some(from_str(unwrap(unwrap(request_body_parameter_tuple).result.body)))

\* Where the panic is: a member that is an allOf of two primitives fails the
\* re-parse of the members, and no fragment comes back; elsewhere it is the
\* fragment that came back that fails the re-parse in generate.
MemberReparsePanics ==
  pc = "unwrap" /\ unwrap(request_body_parameter_tuple).result.fault = "unwrap"
TopReparsePanics ==
  pc = "unwrap" /\ ReturnedFragment

(***************************************************************************)
(* C27: the cycle guard on documents without a cycle.                      *)
(***************************************************************************)
RECURSIVE Referred(_)
\* The names the references below r end with (r itself, if it is one).
Referred(r) ==
  IF r.is_ref THEN {r.reference[Len(r.reference)]}
  ELSE UNION { Referred(unwrap(r.item).properties[n].prop) :
               n \in 1..Len(unwrap(r.item).properties) }
       \cup UNION { Referred(unwrap(r.item).all_of[n]) : n \in 1..Len(unwrap(r.item).all_of) }
       \cup (IF is_some(unwrap(r.item).items) THEN Referred(unwrap(unwrap(r.item).items))
             ELSE {})

RECURSIVE ReachedFrom(_, _, _)
\* The component schemas reached from names in at most k further references.
ReachedFrom(doc, names, k) ==
  IF k = 0 THEN names
  ELSE ReachedFrom(doc,
         names \cup UNION { Referred(doc.schemas[n]) : n \in names \cap DOMAIN doc.schemas },
         k - 1)

\* The reference graph among the component schemas has no cycle.
Acyclic(doc) ==
  \A n \in DOMAIN doc.schemas :
    n \notin ReachedFrom(doc, Referred(doc.schemas[n]), Cardinality(DOMAIN doc.schemas))

OnlyCycles(ds) == \A n \in 1..Len(ds) : IsCycle(ds[n])

\* C27: the cycle guard has no false positives: for a document whose schema
\* reference graph is acyclic no synthesizer emits a cycle diagnostic (so that
\* no branch is cut), and every schema met has its assertion.
C27_NoFalsePositive ==
  Acyclic(openapi) =>
    /\ \A n \in 1..Len(diagnostics) : ~IsCycle(diagnostics[n])
    /\ (AssertsReturned /\ OnlyCycles(unwrap(new_asserts).result.diagnostics)) =>
         \A n \in ReturnedNodes : FormOf(n, n.required) \in ReturnedAsserts

(***************************************************************************)
(* C28: the jsonpath and the context of a diagnostic of a synthesizer.     *)
(***************************************************************************)
RECURSIVE SchemaPaths(_, _, _, _, _)
\* The JSON paths, rooted at jsonpath, of the schema nodes below r as the
\* synthesizer `by` ("assert" or "body") builds them on its way down.
SchemaPaths(doc, r, jsonpath, by, depth) ==
  IF depth = 0 \/ is_none(Target(doc, r)) THEN {}
  ELSE LET s == unwrap(Target(doc, r)) IN
    {jsonpath}
    \cup UNION { SchemaPaths(doc, s.properties[n].prop,
                   IF by = "assert" THEN assert_inner_jsonpath(jsonpath, s.properties[n].name)
                   ELSE PathDot(jsonpath, s.properties[n].name), by, depth - 1) :
                 n \in 1..Len(s.properties) }
    \cup UNION { SchemaPaths(doc, s.all_of[n], jsonpath, by, depth - 1) :
                 n \in 1..Len(s.all_of) }
    \cup (IF is_none(s.items) THEN {}
          ELSE SchemaPaths(doc, unwrap(s.items),
                 PathSuffix(jsonpath, IF by = "assert" THEN "[0]" ELSE "[]"), by, depth - 1))

\* The diagnostics a synthesizer raises at a schema node.
RaisedAtNode(d) == d.error = "UnsupportedSchemaKind" \/ IsCycle(d)

\* d carries the path of a schema node below schema and the operation at hand.
Located(d, schema, by) ==
  /\ d.jsonpath \in { PathStr(p) : p \in SchemaPaths(openapi, Item(schema), RootPath, by,
                                                     MaxDepth) }
  /\ d.operation = operation_context(operation).operation
  /\ d.path = operation_context(operation).path

AssertDiagnosticsLocated ==
  AssertsReturned =>
    \A n \in 1..Len(unwrap(new_asserts).result.diagnostics) :
      RaisedAtNode(unwrap(new_asserts).result.diagnostics[n]) =>
        Located(unwrap(new_asserts).result.diagnostics[n], unwrap(new_asserts).schema, "assert")

BodyDiagnosticsLocated ==
  (pc = "responses" /\ is_some(request_body_parameter_tuple)
   /\ unwrap(request_body_parameter_tuple).result.fault = "") =>
    \A n \in 1..Len(unwrap(request_body_parameter_tuple).result.diagnostics) :
      RaisedAtNode(unwrap(request_body_parameter_tuple).result.diagnostics[n]) =>
        Located(unwrap(request_body_parameter_tuple).result.diagnostics[n],
                unwrap(request_body_parameter_tuple).schema, "body")

\* C28: every UnsupportedSchemaKind and cycle diagnostic of either synthesizer
\* carries in jsonpath the path, rooted at $, of the schema node at which it
\* was raised, and in its context the name and path of the operation at hand.
C28_DiagnosticsLocated == AssertDiagnosticsLocated /\ BodyDiagnosticsLocated

====
